---- MODULE Spec2Model ----
(***************************************************************************)
(* BoxKV storage core: the MemTable (boxkv-core/src/memtable.rs), the      *)
(* write-ahead log writer, iterator and recovery driver                    *)
(* (boxkv-core/src/wal.rs, wal/writer.rs, wal/reader.rs) and the entry     *)
(* types they share (boxkv-common/src/types.rs).                           *)
(*                                                                         *)
(* Byte strings are sequences over 0..255.  A u64 that is read back from   *)
(* a file is kept as its 8 big-endian bytes, so that no width is lost.     *)
(***************************************************************************)
EXTENDS Integers, Sequences, FiniteSets, TLC

(***************************************************************************)
(* Bounds of the model.                                                    *)
(***************************************************************************)
\* largest sequence number passed to a MemTable or WAL call
MaxSeq == 2

\* keys and values the MemTable operations draw from
MemKeys == {<<>>, <<97>>, <<97, 98>>}
MemValues == {<<>>, <<120, 121>>}
Seqs == 0..MaxSeq
\* keys that tell the orders of byte strings apart: a proper prefix, a longer key
\* with a smaller first byte, a byte above 127
OrderKeys == {<<>>, <<97>>, <<97, 98>>, <<98>>, <<200>>}


(***************************************************************************)
(* types.rs: ValueType and Entry                                           *)
(***************************************************************************)
NORMAL_VALUE_TYPE == 0
TOMBSTONE_VALUE_TYPE == 1
EXPIRING_VALUE_TYPE == 2
VALUE_TOMBSTONE_LEN == 0
VALUE_EXPIRING_AT_LEN == 8

\* ValueType::Normal(data), ValueType::Tombstone, ValueType::Expiring{data, expire_at}.
\* The fields a variant does not have are held at <<>> and 0.
Normal(data) == [tag |-> NORMAL_VALUE_TYPE, data |-> data, expire_at |-> 0]
Tombstone == [tag |-> TOMBSTONE_VALUE_TYPE, data |-> <<>>, expire_at |-> 0]
Expiring(data, expire_at) == [tag |-> EXPIRING_VALUE_TYPE, data |-> data, expire_at |-> expire_at]

type_tag(v) == v.tag

data_len(v) == IF v.tag = TOMBSTONE_VALUE_TYPE THEN VALUE_TOMBSTONE_LEN ELSE Len(v.data)

meta_len(v) == IF v.tag = EXPIRING_VALUE_TYPE THEN VALUE_EXPIRING_AT_LEN ELSE 0

serialized_len(v) == data_len(v) + meta_len(v)

is_tombstone(v) == v.tag = TOMBSTONE_VALUE_TYPE

\* Entry::new(seq, key, val)
Entry(seq, key, val) == [key |-> key, val |-> val, seq |-> seq]

\* number of records appended to WAL files in one behaviour
MaxRecords == 2

\* file ids, keys and values the WAL operations draw from
WalIds == {1, 2}
WalPayloads ==
    {[key |-> <<>>, val |-> Normal(<<>>)],
     [key |-> <<107>>, val |-> Tombstone],
     [key |-> <<107>>, val |-> Expiring(<<118>>, 258)]}
\* the seqs of the WAL records and the min_seq arguments of the recovery scans
WalSeqs == {0, 1, 2}
WalMinSeqs == {0, 1, 2, 3}
\* two payloads under every seq, each payload under two seqs, for the recovery scans
WalEntries ==
    {Entry(s, p.key, p.val) : s \in WalSeqs, p \in WalPayloads} \
        {Entry(0, <<>>, Normal(<<>>)), Entry(1, <<107>>, Tombstone),
         Entry(2, <<107>>, Expiring(<<118>>, 258))}
\* one entry per variant, for the crash and damage scenarios
WalSamples ==
    {Entry(1, <<>>, Normal(<<>>)), Entry(2, <<107>>, Tombstone),
     Entry(0, <<107>>, Expiring(<<118>>, 258))}
\* an entry without key and value and an entry with all three parts, for the crash
\* and damage scenarios
CrashSamples == {Entry(1, <<>>, Normal(<<>>)), Entry(0, <<107>>, Expiring(<<118>>, 258))}

(***************************************************************************)
(* memtable.rs: MemTable                                                   *)
(***************************************************************************)
VARIABLES
    table,      \* BTreeMap<Bytes, EntryInfo>: a function from the stored keys to [value, seq]
    size,       \* AtomicU64 size counter; a negative number v stands for the wrapped 2^64 + v
    out,        \* what the last call returned
    maxSeen,    \* history: per key, the largest seq passed to put/delete so far (-1: none)
    lastSeq     \* history: per key, the seq passed to the most recent put/delete (-1: none)

memVars == <<table, size, out, maxSeen, lastSeq>>

\* the state of the WAL directory, its writer and its readers
VARIABLES
    disk,       \* the directory: file id -> the bytes the OS holds for {id:09}.wal
    synced,     \* file id -> length of the prefix that sync_all has made durable
    wal,        \* the active Wal: [open, id, buf], buf the bytes still in its BufWriter
    appended,   \* history: file id -> the entries appended since the file was created
    durable,    \* history: file id -> how many of them were appended before the last sync
    rec,        \* the last read_all_entries call: [call, ret], its arguments and result
    nrec,       \* history: number of append calls so far
    damage,     \* what the environment did to the directory, at most once
    it,         \* a WalIterator: [open, file, start, pos, last], last its latest item
    probe       \* the latest write-and-read-back of a record given by its lengths

walVars == <<disk, synced, wal, appended, durable, rec, nrec, damage, it, probe>>

vars == <<memVars, walVars>>

ENTRY_METADATA_SIZE == 16

NoOut == [op |-> "none"]
\* the () that put and delete return
Unit == [op |-> "unit"]

\* AtomicU64::fetch_add / fetch_sub (wrapping); see the encoding of `size`
fetch_add(cur, d) == cur + d
fetch_sub(cur, d) == cur - d

\* MemTable::new
MemInit ==
    /\ table = << >>
    /\ size = 0
    /\ out = NoOut
    /\ maxSeen = [k \in MemKeys \cup OrderKeys |-> -1]
    /\ lastSeq = [k \in MemKeys \cup OrderKeys |-> -1]

\* update that builds the map anew from the entry it writes
update_table_alone(t, seq, key, value) ==
    [k \in {key} |-> [value |-> value, seq |-> seq]]

\* update that keeps the stored version when it carries the larger seq
update_table_keep_newest(t, seq, key, value) ==
    [k \in (DOMAIN t) \cup {key} |->
        IF k = key /\ (k \notin DOMAIN t \/ t[k].seq <= seq)
        THEN [value |-> value, seq |-> seq] ELSE t[k]]

\* the map after `entry_info.value = value; entry_info.seq = seq` or `writer.insert(..)`
update_table(t, seq, key, value) ==
    [k \in (DOMAIN t) \cup {key} |->
        IF k = key THEN [value |-> value, seq |-> seq] ELSE t[k]]

\* size accounting that leaves a new key uncounted
update_size_insert_uncounted(t, sz, key, value) ==
    IF key \in DOMAIN t
    THEN LET old_size == Len(key) + serialized_len(t[key].value) + ENTRY_METADATA_SIZE
             new_size == Len(key) + serialized_len(value) + ENTRY_METADATA_SIZE
             diff == new_size - old_size
         IN  IF diff > 0 THEN fetch_add(sz, diff)
             ELSE IF diff < 0 THEN fetch_sub(sz, -diff)
             ELSE sz
    ELSE sz

\* size accounting that never subtracts when an overwrite shrinks the entry
update_size_no_shrink(t, sz, key, value) ==
    IF key \in DOMAIN t
    THEN LET old_size == Len(key) + serialized_len(t[key].value) + ENTRY_METADATA_SIZE
             new_size == Len(key) + serialized_len(value) + ENTRY_METADATA_SIZE
             diff == new_size - old_size
         IN  IF diff > 0 THEN fetch_add(sz, diff) ELSE sz
    ELSE fetch_add(sz, Len(key) + serialized_len(value) + ENTRY_METADATA_SIZE)

\* the size counter after MemTable::update
update_size(t, sz, key, value) ==
    IF key \in DOMAIN t
    THEN LET old_size == Len(key) + serialized_len(t[key].value) + ENTRY_METADATA_SIZE
             new_size == Len(key) + serialized_len(value) + ENTRY_METADATA_SIZE
             diff == new_size - old_size
         IN  IF diff > 0 THEN fetch_add(sz, diff)
             ELSE IF diff < 0 THEN fetch_sub(sz, -diff)
             ELSE sz
    ELSE fetch_add(sz, Len(key) + serialized_len(value) + ENTRY_METADATA_SIZE)

\* MemTable::update
update(seq, key, value) ==
    /\ table' = update_table(table, seq, key, value)
    /\ size' = update_size(table, size, key, value)
    /\ maxSeen' = [maxSeen EXCEPT ![key] = IF seq > @ THEN seq ELSE @]
    /\ lastSeq' = [lastSeq EXCEPT ![key] = seq]

\* a lookup that does not find entries whose value is empty
get_nonempty_only(t, key) ==
    IF key \in DOMAIN t /\ serialized_len(t[key].value) > 0
    THEN [some |-> TRUE, entry |-> Entry(t[key].seq, key, t[key].value)]
    ELSE [some |-> FALSE]

\* MemTable::get
get(t, key) ==
    IF key \in DOMAIN t
    THEN [some |-> TRUE, entry |-> Entry(t[key].seq, key, t[key].value)]
    ELSE [some |-> FALSE]

\* Ord for Bytes: lexicographic order of unsigned bytes, a proper prefix first
RECURSIVE BytesLess(_, _)
BytesLess(a, b) ==
    IF b = <<>> THEN FALSE
    ELSE IF a = <<>> THEN TRUE
    ELSE IF Head(a) # Head(b) THEN Head(a) < Head(b)
    ELSE BytesLess(Tail(a), Tail(b))

\* the stored keys, the shorter key first and keys of one length in byte order
RECURSIVE KeysShortestFirst(_)
KeysShortestFirst(ks) ==
    IF ks = {} THEN <<>>
    ELSE LET k == CHOOSE x \in ks :
                      \A y \in ks \ {x} : Len(x) < Len(y) \/ (Len(x) = Len(y) /\ BytesLess(x, y))
         IN  <<k>> \o KeysShortestFirst(ks \ {k})

\* BTreeMap::iter: the stored keys in ascending order
RECURSIVE KeysAscending(_)
KeysAscending(ks) ==
    IF ks = {} THEN <<>>
    ELSE LET k == CHOOSE x \in ks : \A y \in ks \ {x} : BytesLess(x, y)
         IN  <<k>> \o KeysAscending(ks \ {k})

\* MemTable::snapshot
snapshot(t) ==
    LET ks == KeysAscending(DOMAIN t)
    IN  [i \in 1..Len(ks) |-> Entry(t[ks[i]].seq, ks[i], t[ks[i]].value)]

\* MemTable::put
Put(seq, key, value) ==
    /\ update(seq, key, Normal(value))
    /\ out' = Unit
    /\ UNCHANGED walVars

\* a delete that removes the key from the map
Delete_removing(seq, key) ==
    /\ table' = [k \in (DOMAIN table) \ {key} |-> table[k]]
    /\ size' = IF key \in DOMAIN table
               THEN fetch_sub(size, Len(key) + serialized_len(table[key].value)
                                    + ENTRY_METADATA_SIZE)
               ELSE size
    /\ maxSeen' = [maxSeen EXCEPT ![key] = IF seq > @ THEN seq ELSE @]
    /\ lastSeq' = [lastSeq EXCEPT ![key] = seq]
    /\ out' = Unit
    /\ UNCHANGED walVars

\* MemTable::delete
Delete(seq, key) ==
    /\ update(seq, key, Tombstone)
    /\ out' = Unit
    /\ UNCHANGED walVars

\* MemTable::get as a call
Get(key) ==
    /\ out' = [op |-> "get", key |-> key, res |-> get(table, key)]
    /\ UNCHANGED <<walVars, table, size, maxSeen, lastSeq>>

\* MemTable::size
Size ==
    /\ out' = [op |-> "size", res |-> size]
    /\ UNCHANGED <<walVars, table, size, maxSeen, lastSeq>>

\* MemTable::snapshot as a call
Snapshot ==
    /\ out' = [op |-> "snapshot", res |-> snapshot(table)]
    /\ UNCHANGED <<walVars, table, size, maxSeen, lastSeq>>

MemNext ==
    \/ \E seq \in Seqs, key \in MemKeys, value \in MemValues : Put(seq, key, value)
    \/ \E seq \in Seqs, key \in MemKeys : Delete(seq, key)
    \/ \E key \in MemKeys : Get(key)
    \/ Size
    \/ Snapshot


(***************************************************************************)
(* Bytes, u64 fields and CRC32 as the WAL code uses them                   *)
(***************************************************************************)
\* exclusive-or of two 4-bit numbers
Bit(a, i) == (a \div i) % 2

XorBit(a, b, i) == (Bit(a, i) + Bit(b, i)) % 2

Xor4 ==
    [a \in 0..15 |-> [b \in 0..15 |->
        XorBit(a, b, 1) + 2 * XorBit(a, b, 2) + 4 * XorBit(a, b, 4) + 8 * XorBit(a, b, 8)]]

\* exclusive-or of two bytes
XorTable ==
    [a \in 0..255 |-> [b \in 0..255 |->
        16 * Xor4[a \div 16][b \div 16] + Xor4[(a % 16)][(b % 16)]]]

Xor8(a, b) == XorTable[a][b]

\* A CRC32 register is kept as 4 bytes, least significant first.
\* The reflected IEEE polynomial 0xEDB88320.
CrcPoly == <<32, 131, 184, 237>>

\* one step of the bitwise CRC: shift right, and subtract the polynomial if a 1 fell out
CrcShift(c) ==
    LET s == <<(c[1] \div 2) + 128 * (c[2] % 2), (c[2] \div 2) + 128 * (c[3] % 2),
               (c[3] \div 2) + 128 * (c[4] % 2), c[4] \div 2>>
    IN  IF (c[1] % 2) = 1
        THEN <<Xor8(s[1], CrcPoly[1]), Xor8(s[2], CrcPoly[2]),
               Xor8(s[3], CrcPoly[3]), Xor8(s[4], CrcPoly[4])>>
        ELSE s

\* the byte-indexed table of the IEEE CRC32
CrcTable ==
    [i \in 0..255 |->
        CrcShift(CrcShift(CrcShift(CrcShift(CrcShift(CrcShift(CrcShift(CrcShift(<<i, 0, 0, 0>>))))))))]

\* crc32fast::Hasher::new
HasherNew == <<255, 255, 255, 255>>

\* the register shifted by one byte, combined with the table entry t
HasherShift(c, t) == <<Xor8(t[1], c[2]), Xor8(t[2], c[3]), Xor8(t[3], c[4]), t[4]>>

\* one byte of crc32fast::Hasher::update
HasherStep(c, b) == HasherShift(c, CrcTable[Xor8(c[1], b)])

\* crc32fast::Hasher::update over bytes[i..]; HasherFrom goes on from the register
\* n that the byte before bytes[i] has left
RECURSIVE HasherUpdate(_, _, _)
RECURSIVE HasherFrom(_, _, _)
HasherUpdate(c, bytes, i) ==
    IF i > Len(bytes) THEN c ELSE HasherFrom(HasherStep(c, bytes[i]), bytes, i + 1)

HasherFrom(n, bytes, i) == IF n[1] \in 0..255 THEN HasherUpdate(n, bytes, i) ELSE n

\* crc32fast::Hasher::finalize followed by u32::to_be_bytes
HasherFinalizeBE(c) == <<255 - c[4], 255 - c[3], 255 - c[2], 255 - c[1]>>

\* the big-endian CRC32 of a byte string
Crc32BE(bytes) == HasherFinalizeBE(HasherUpdate(HasherNew, bytes, 1))

\* u64::to_be_bytes of a number below 2^31
to_be_bytes(n) ==
    <<0, 0, 0, 0, (n \div 16777216) % 256, (n \div 65536) % 256, (n \div 256) % 256, n % 256>>

\* a u64 given by its 8 big-endian bytes is below 2^31
U64Fits(b) == b[1] = 0 /\ b[2] = 0 /\ b[3] = 0 /\ b[4] = 0 /\ b[5] < 128

\* u64::from_be_bytes, as a number, of a value below 2^31
U64Nat(b) == ((b[5] * 256 + b[6]) * 256 + b[7]) * 256 + b[8]

\* a - b on u64 big-endian bytes, from byte i down, with the borrow of the bytes
\* behind it and their result acc: the wrapped difference and whether it wrapped
RECURSIVE U64SubFrom(_, _, _, _, _)
U64SubFrom(a, b, i, borrow, acc) ==
    IF i = 0 THEN [value |-> acc, overflow |-> borrow = 1]
    ELSE U64SubFrom(a, b, i - 1, IF a[i] - b[i] - borrow < 0 THEN 1 ELSE 0,
                    <<(a[i] - b[i] - borrow + 256) % 256>> \o acc)

\* wrapping_sub and whether it wrapped
U64Sub(a, b) == U64SubFrom(a, b, 8, 0, <<>>)

(***************************************************************************)
(* wal/writer.rs: the record format as WalWriter::append writes it         *)
(***************************************************************************)
WAL_CRC_SIZE == 4
WAL_PAYLOAD_LEN_SIZE == 8
WAL_TYPE_SIZE == 1
WAL_SEQ_SIZE == 8
WAL_HEADER_SIZE == WAL_CRC_SIZE + WAL_PAYLOAD_LEN_SIZE + WAL_TYPE_SIZE + WAL_SEQ_SIZE
WAL_KEY_LEN_SIZE == 8
WAL_EXPIRE_LEN_SIZE == 8

\* the bytes of the value section: what append passes to the hasher and to write_all
ValueSection(val) ==
    IF val.tag = NORMAL_VALUE_TYPE THEN val.data
    ELSE IF val.tag = TOMBSTONE_VALUE_TYPE THEN <<>>
    ELSE to_be_bytes(val.expire_at) \o val.data

\* the bytes WalWriter::append feeds to the hasher, which are the bytes it writes
\* behind the CRC
hashed(entry) ==
    LET val_type == type_tag(entry.val)
        key_len == Len(entry.key)
        val_len == serialized_len(entry.val)
        payload_len == WAL_KEY_LEN_SIZE + key_len + val_len
    IN  to_be_bytes(payload_len) \o <<val_type>> \o to_be_bytes(entry.seq)
        \o to_be_bytes(key_len) \o entry.key \o ValueSection(entry.val)

\* the CRC of the bytes, big-endian, in front of them
with_crc(covered) == Crc32BE(covered) \o covered

\* WalWriter::append: the bytes handed to the BufWriter, CRC first
append(entry) == with_crc(hashed(entry))

(***************************************************************************)
(* wal/reader.rs: WalIterator                                              *)
(***************************************************************************)
WAL_MAX_KEY_SIZE == 1048576
WAL_MAX_VAL_SIZE == 67108864

\* ReadError values
UnexpectedEof == [type |-> "Io", kind |-> "UnexpectedEof"]
OtherIo == [type |-> "Io", kind |-> "Other"]
CrcMismatch(expected, actual) == [type |-> "CrcMismatch", expected |-> expected, actual |-> actual]
InvalidRecordType(tag) == [type |-> "InvalidRecordType", tag |-> tag]
PayloadTooLarge(key_len, val_len) ==
    [type |-> "PayloadTooLarge", key_len |-> key_len, val_len |-> val_len,
     max_key |-> WAL_MAX_KEY_SIZE, max_val |-> WAL_MAX_VAL_SIZE]

\* what one call of read_next_entry ends with; pos is the reader's offset afterwards
RNone(pos) == [kind |-> "none", pos |-> pos]
REntry(e, pos) == [kind |-> "entry", entry |-> e, pos |-> pos]
RErr(err, pos) == [kind |-> "err", err |-> err, pos |-> pos]
RPanic(why) == [kind |-> "panic", why |-> why]

\* a u64 length, given by its bytes, is at most the number n
U64AtMost(b, n) == U64Fits(b) /\ U64Nat(b) <= n

\* `payload_len - WAL_KEY_LEN_SIZE as u64 - key_len`: the second subtraction, after
\* the first one has given sub1
val_len_from(sub1, key_len) ==
    [value |-> U64Sub(sub1.value, key_len).value,
     overflow |-> sub1.overflow \/ U64Sub(sub1.value, key_len).overflow]

\* `payload_len - WAL_KEY_LEN_SIZE as u64 - key_len`, wrapped, and whether it wrapped
val_len_of(payload_len, key_len) ==
    val_len_from(U64Sub(payload_len, to_be_bytes(WAL_KEY_LEN_SIZE)), key_len)

\* read_next_entry from the allocation of key_buf to the read of val_buf, with
\* val_len as val_len_of derives it
check_lengths(key_len, val_len, avail, env) ==
    IF key_len[1] >= 128 THEN RPanic("capacity overflow")
    ELSE IF env.oom /\ ~U64AtMost(key_len, WAL_MAX_KEY_SIZE)
         THEN RPanic("memory allocation failed")
    ELSE IF ~U64AtMost(key_len, avail) THEN [kind |-> "err", err |-> UnexpectedEof]
    ELSE IF env.overflow_checks /\ val_len.overflow
         THEN RPanic("attempt to subtract with overflow")
    ELSE IF ~U64AtMost(key_len, WAL_MAX_KEY_SIZE)
            \/ ~U64AtMost(val_len.value, WAL_MAX_VAL_SIZE)
         THEN [kind |-> "err", err |-> PayloadTooLarge(key_len, val_len.value)]
    ELSE IF U64Nat(val_len.value) > avail - U64Nat(key_len)
         THEN [kind |-> "err", err |-> UnexpectedEof]
    ELSE [kind |-> "ok", key_len |-> U64Nat(key_len), val_len |-> U64Nat(val_len.value)]

\* read_next_entry from the allocation of key_buf to the read of val_buf, on the
\* lengths alone: payload_len and key_len are the u64 fields as 8 bytes each, avail
\* is the number of bytes the file holds behind the KeyLen field.
\* env.overflow_checks: the build traps integer overflow (debug) or wraps (release);
\* env.oom: an allocation beyond the reader's own size limits fails.
read_lengths(payload_len, key_len, avail, env) ==
    check_lengths(key_len, val_len_of(payload_len, key_len), avail, env)

\* a decoder that reads every record with an unknown ValueTag as a Normal entry
verify_and_decode_any_tag(file, pos, kl, vl, calculate_crc) ==
    LET header_crc == SubSeq(file, pos + 1, pos + 4)
        val_type_u8 == file[pos + 13]
        s == U64Nat(SubSeq(file, pos + 14, pos + 21))
        kpos == pos + WAL_HEADER_SIZE + WAL_KEY_LEN_SIZE
        key == SubSeq(file, kpos + 1, kpos + kl)
        val_buf == SubSeq(file, kpos + kl + 1, kpos + kl + vl)
        vend == kpos + kl + vl
    IN  IF calculate_crc # header_crc
        THEN RErr(CrcMismatch(header_crc, calculate_crc), vend)
        ELSE IF val_type_u8 = TOMBSTONE_VALUE_TYPE THEN REntry(Entry(s, key, Tombstone), vend)
        ELSE IF val_type_u8 = EXPIRING_VALUE_TYPE
             THEN IF vl < WAL_EXPIRE_LEN_SIZE THEN RPanic("slice index out of range")
                  ELSE REntry(Entry(s, key,
                                    Expiring(SubSeq(val_buf, WAL_EXPIRE_LEN_SIZE + 1, vl),
                                             U64Nat(SubSeq(val_buf, 1, WAL_EXPIRE_LEN_SIZE)))),
                              vend)
        ELSE REntry(Entry(s, key, Normal(val_buf)), vend)

\* read_next_entry from the CRC verification on: the record starts at offset pos,
\* its key has kl bytes and its value section vl bytes, all of them in the file,
\* and calculate_crc is the CRC of the bytes behind the header CRC
verify_and_decode(file, pos, kl, vl, calculate_crc) ==
    LET header_crc == SubSeq(file, pos + 1, pos + 4)
        val_type_u8 == file[pos + 13]
        s == U64Nat(SubSeq(file, pos + 14, pos + 21))
        kpos == pos + WAL_HEADER_SIZE + WAL_KEY_LEN_SIZE
        key == SubSeq(file, kpos + 1, kpos + kl)
        val_buf == SubSeq(file, kpos + kl + 1, kpos + kl + vl)
        vend == kpos + kl + vl
    IN  IF calculate_crc # header_crc
        THEN RErr(CrcMismatch(header_crc, calculate_crc), vend)
        ELSE IF val_type_u8 = NORMAL_VALUE_TYPE THEN REntry(Entry(s, key, Normal(val_buf)), vend)
        ELSE IF val_type_u8 = TOMBSTONE_VALUE_TYPE THEN REntry(Entry(s, key, Tombstone), vend)
        ELSE IF val_type_u8 = EXPIRING_VALUE_TYPE
             THEN IF vl < WAL_EXPIRE_LEN_SIZE THEN RPanic("slice index out of range")
                  ELSE REntry(Entry(s, key,
                                    Expiring(SubSeq(val_buf, WAL_EXPIRE_LEN_SIZE + 1, vl),
                                             U64Nat(SubSeq(val_buf, 1, WAL_EXPIRE_LEN_SIZE)))),
                              vend)
        ELSE RErr(InvalidRecordType(val_type_u8), vend)

\* read_next_entry behind the read of the KeyLen field, lens being what the length
\* checks and the reads of key and value section have come to.
\* The hasher is fed payload_len, val_type, seq and key_len as to_be_bytes of what
\* from_be_bytes gave, then key_buf and val_buf: the file's bytes behind the CRC.
read_payload(file, pos, lens) ==
    IF lens.kind = "panic" THEN lens
    ELSE IF lens.kind = "err"
         THEN RErr(lens.err,
                   IF lens.err = UnexpectedEof THEN Len(file)
                   ELSE pos + WAL_HEADER_SIZE + WAL_KEY_LEN_SIZE
                        + U64Nat(SubSeq(file, pos + 22, pos + 29)))
    ELSE verify_and_decode(file, pos, lens.key_len, lens.val_len,
             Crc32BE(SubSeq(file, pos + 5, pos + 12) \o <<file[pos + 13]>>
                     \o SubSeq(file, pos + 14, pos + 21) \o SubSeq(file, pos + 22, pos + 29)
                     \o SubSeq(file, pos + 29 + 1, pos + 29 + lens.key_len)
                     \o SubSeq(file, pos + 29 + lens.key_len + 1,
                               pos + 29 + lens.key_len + lens.val_len)))

\* WalIterator::read_next_entry on a file of the given bytes, from offset pos.
\* env.eio: the offset at which the read of a record header fails with an I/O error
\* other than unexpected-EOF (-1: none).
read_next_entry(file, pos, env) ==
    IF env.eio = pos THEN RErr(OtherIo, pos)
    ELSE IF Len(file) - pos = 0 THEN RNone(pos)
    ELSE IF Len(file) - pos < WAL_HEADER_SIZE THEN RErr(UnexpectedEof, Len(file))
    ELSE IF Len(file) - pos < WAL_HEADER_SIZE + WAL_KEY_LEN_SIZE
         THEN RErr(UnexpectedEof, Len(file))
    ELSE read_payload(file, pos,
             read_lengths(SubSeq(file, pos + 5, pos + 12), SubSeq(file, pos + 22, pos + 29),
                          Len(file) - (pos + WAL_HEADER_SIZE + WAL_KEY_LEN_SIZE), env))

(***************************************************************************)
(* wal.rs: the WAL directory, the active Wal and recovery                  *)
(***************************************************************************)
NoWal == [open |-> FALSE, id |-> 0, buf |-> <<>>]
NoRec == [ret |-> [kind |-> "none"]]
NoDamage == [kind |-> "none"]
NoIter == [open |-> FALSE]
NoProbe == [kind |-> "none"]

\* a map with key k set to v
MapPut(f, k, v) == [x \in (DOMAIN f) \cup {k} |-> IF x = k THEN v ELSE f[x]]

WalInit ==
    /\ disk = << >>
    /\ synced = << >>
    /\ wal = NoWal
    /\ appended = << >>
    /\ durable = << >>
    /\ rec = NoRec
    /\ nrec = 0
    /\ damage = NoDamage
    /\ it = NoIter
    /\ probe = NoProbe

\* the environment of one read_all_entries call, restricted to one file
FileEnv(env, id) ==
    [overflow_checks |-> env.overflow_checks, oom |-> env.oom,
     eio |-> IF env.eio_file = id THEN env.eio_pos ELSE -1]

\* a filter that keeps only what lies strictly above min_seq
passes_min_seq_strict(entry, min_seq) == entry.seq > min_seq

\* `if entry.seq() >= min_seq` of read_all_entries
passes_min_seq(entry, min_seq) == entry.seq >= min_seq

\* a match without the unexpected-EOF arm: every error aborts
is_torn_tail_never(err) == FALSE

\* a match whose unexpected-EOF arm takes every error
is_torn_tail_always(err) == TRUE

\* `Err(ReadError::Io(e)) if e.kind() == UnexpectedEof` of read_all_entries
is_torn_tail(err) == err = UnexpectedEof

\* a push that leaves max_seq as it is
push_without_max(acc, entry) ==
    [entries |-> Append(acc.entries, entry), max_seq |-> acc.max_seq]

\* a push that puts the entry in front of the entries collected so far
push_front(acc, entry) ==
    [entries |-> <<entry>> \o acc.entries,
     max_seq |-> IF entry.seq > acc.max_seq THEN entry.seq ELSE acc.max_seq]

\* `max_seq = max_seq.max(entry.seq()); all_entrise.push(entry)` on acc = [entries, max_seq]
push(acc, entry) ==
    [entries |-> Append(acc.entries, entry),
     max_seq |-> IF entry.seq > acc.max_seq THEN entry.seq ELSE acc.max_seq]

\* `for res in read_it { match res {..} }` of read_all_entries over one file, from
\* offset pos, with acc = [entries, max_seq] collected so far; ReadItem is the match
\* on one item res of the iterator.
RECURSIVE ReadFile(_, _, _, _, _)
RECURSIVE ReadItem(_, _, _, _, _)
ReadFile(file, pos, env, min_seq, acc) ==
    ReadItem(file, env, min_seq, acc, read_next_entry(file, pos, env))

\* a match whose unexpected-EOF arm forgets the entries collected so far
ReadItem_torn_forgets(file, env, min_seq, acc, res) ==
    IF res.kind = "none" THEN [kind |-> "ok", acc |-> acc]
    ELSE IF res.kind = "panic" THEN res
    ELSE IF res.kind = "entry"
         THEN ReadFile(file, res.pos, env, min_seq,
                       IF passes_min_seq(res.entry, min_seq) THEN push(acc, res.entry) ELSE acc)
    ELSE IF is_torn_tail(res.err)
         THEN [kind |-> "ok", acc |-> [entries |-> <<>>, max_seq |-> 0]]
    ELSE [kind |-> "err", err |-> res.err]

\* a match that takes the seq of every entry read into max_seq, filtered out or not
ReadItem_max_of_all(file, env, min_seq, acc, res) ==
    IF res.kind = "none" THEN [kind |-> "ok", acc |-> acc]
    ELSE IF res.kind = "panic" THEN res
    ELSE IF res.kind = "entry"
         THEN ReadFile(file, res.pos, env, min_seq,
                       IF passes_min_seq(res.entry, min_seq) THEN push(acc, res.entry)
                       ELSE [acc EXCEPT !.max_seq = push(acc, res.entry).max_seq])
    ELSE IF is_torn_tail(res.err) THEN [kind |-> "ok", acc |-> acc]
    ELSE [kind |-> "err", err |-> res.err]

ReadItem(file, env, min_seq, acc, res) ==
    IF res.kind = "none" THEN [kind |-> "ok", acc |-> acc]
    ELSE IF res.kind = "panic" THEN res
    ELSE IF res.kind = "entry"
         THEN ReadFile(file, res.pos, env, min_seq,
                       IF passes_min_seq(res.entry, min_seq) THEN push(acc, res.entry) ELSE acc)
    ELSE IF is_torn_tail(res.err) THEN [kind |-> "ok", acc |-> acc]
    ELSE [kind |-> "err", err |-> res.err]

\* `for (file_id, path) in &wal_files` of read_all_entries, over the ids in ascending
\* order; AfterFile goes on from the result r of the file with the lowest id
RECURSIVE ReadFiles(_, _, _, _, _)
RECURSIVE AfterFile(_, _, _, _, _, _)
ReadFiles(dir, ids, env, min_seq, acc) ==
    IF ids = {} THEN [kind |-> "ok", acc |-> acc]
    ELSE AfterFile(dir, ids, env, min_seq, CHOOSE x \in ids : \A y \in ids : x <= y,
                   ReadFile(dir[CHOOSE x \in ids : \A y \in ids : x <= y], 0,
                            FileEnv(env, CHOOSE x \in ids : \A y \in ids : x <= y),
                            min_seq, acc))

AfterFile(dir, ids, env, min_seq, id, r) ==
    IF r.kind = "ok" THEN ReadFiles(dir, ids \ {id}, env, min_seq, r.acc)
    ELSE IF r.kind = "err"
         THEN [kind |-> "err", err |-> [type |-> "Read", path |-> id, source |-> r.err]]
    ELSE r

\* Vec::sort_by_key(|r| r.seq()): a stable sort by seq ascending.
\* InsertBySeq puts e behind every entry of the sorted list whose seq is not larger.
RECURSIVE InsertBySeq(_, _)
InsertBySeq(sorted, e) ==
    IF sorted = <<>> THEN <<e>>
    ELSE IF Head(sorted).seq <= e.seq THEN <<Head(sorted)>> \o InsertBySeq(Tail(sorted), e)
    ELSE <<e>> \o sorted

RECURSIVE sort_by_key_seq(_)
sort_by_key_seq(es) ==
    IF es = <<>> THEN <<>>
    ELSE InsertBySeq(sort_by_key_seq(SubSeq(es, 1, Len(es) - 1)), es[Len(es)])

\* the result of read_all_entries without the final sort
unsorted(r) ==
    IF r.kind = "ok"
    THEN [kind |-> "ok", entries |-> r.acc.entries, max_seq |-> r.acc.max_seq]
    ELSE r

\* `all_entrise.sort_by_key(|r| r.seq()); Ok((all_entrise, max_seq))` on what the
\* loop over the files has come to
sorted(r) ==
    IF r.kind = "ok"
    THEN [kind |-> "ok", entries |-> sort_by_key_seq(r.acc.entries), max_seq |-> r.acc.max_seq]
    ELSE r

\* Wal::read_all_entries(dir, min_seq)
read_all_entries(dir, min_seq, env) ==
    sorted(ReadFiles(dir, DOMAIN dir, env, min_seq, [entries |-> <<>>, max_seq |-> 0]))

\* a create that opens an existing file as it is and writes after its bytes
Create_without_truncate(id) ==
    /\ ~wal.open
    /\ damage = NoDamage
    /\ disk' = IF id \in DOMAIN disk THEN disk ELSE MapPut(disk, id, <<>>)
    /\ synced' = MapPut(synced, id, 0)
    /\ wal' = [open |-> TRUE, id |-> id, buf |-> <<>>]
    /\ appended' = MapPut(appended, id, <<>>)
    /\ durable' = MapPut(durable, id, 0)
    /\ rec' = NoRec
    /\ it' = NoIter
    /\ UNCHANGED <<memVars, nrec, damage, probe>>

\* Wal::create(dir, file_id): File::create makes or truncates the file
Create(id) ==
    /\ ~wal.open
    /\ damage = NoDamage
    /\ disk' = MapPut(disk, id, <<>>)
    /\ synced' = MapPut(synced, id, 0)
    /\ wal' = [open |-> TRUE, id |-> id, buf |-> <<>>]
    /\ appended' = MapPut(appended, id, <<>>)
    /\ durable' = MapPut(durable, id, 0)
    /\ rec' = NoRec
    /\ it' = NoIter
    /\ UNCHANGED <<memVars, nrec, damage, probe>>

\* the file of the open Wal still has its name in the directory; after
\* Wal::delete of that file the Wal writes on to a file without a name, and
\* what it writes is in no file of the directory
Linked == wal.id \in DOMAIN disk

\* an append that puts the record in front of what the BufWriter holds
AppendEntry_prepending(e) ==
    /\ wal.open
    /\ nrec < MaxRecords
    /\ wal' = [wal EXCEPT !.buf = append(e) \o @]
    /\ appended' = IF Linked THEN [appended EXCEPT ![wal.id] = Append(@, e)] ELSE appended
    /\ nrec' = nrec + 1
    /\ rec' = NoRec
    /\ UNCHANGED <<memVars, disk, synced, durable, damage, it, probe>>

\* Wal::append_normal / append_tombstone / append_expire: WalWriter::append into the
\* BufWriter, whose 8 KiB buffer the records of this model never fill
AppendEntry(e) ==
    /\ wal.open
    /\ nrec < MaxRecords
    /\ wal' = [wal EXCEPT !.buf = @ \o append(e)]
    /\ appended' = IF Linked THEN [appended EXCEPT ![wal.id] = Append(@, e)] ELSE appended
    /\ nrec' = nrec + 1
    /\ rec' = NoRec
    /\ UNCHANGED <<memVars, disk, synced, durable, damage, it, probe>>

\* a sync_all that is not preceded by the flush of the BufWriter
Sync_without_flush ==
    /\ wal.open
    /\ synced' = IF Linked THEN [synced EXCEPT ![wal.id] = Len(disk[wal.id])] ELSE synced
    /\ durable' = IF Linked THEN [durable EXCEPT ![wal.id] = Len(appended[wal.id])]
                  ELSE durable
    /\ rec' = NoRec
    /\ UNCHANGED <<memVars, disk, wal, appended, nrec, damage, it, probe>>

\* Wal::sync: BufWriter::flush, then File::sync_all; both succeed
Sync ==
    /\ wal.open
    /\ disk' = IF Linked THEN [disk EXCEPT ![wal.id] = @ \o wal.buf] ELSE disk
    /\ synced' = IF Linked THEN [synced EXCEPT ![wal.id] = Len(disk[wal.id]) + Len(wal.buf)]
                 ELSE synced
    /\ wal' = [wal EXCEPT !.buf = <<>>]
    /\ durable' = IF Linked THEN [durable EXCEPT ![wal.id] = Len(appended[wal.id])]
                  ELSE durable
    /\ rec' = NoRec
    /\ UNCHANGED <<memVars, appended, nrec, damage, it, probe>>

\* `self.writer.flush()?` of WalWriter::sync, as a step of its own: the buffer has
\* reached the file, sync_all has not returned yet
Flush ==
    /\ wal.open
    /\ wal.buf # <<>>
    /\ disk' = IF Linked THEN [disk EXCEPT ![wal.id] = @ \o wal.buf] ELSE disk
    /\ wal' = [wal EXCEPT !.buf = <<>>]
    /\ rec' = NoRec
    /\ UNCHANGED <<memVars, synced, appended, durable, nrec, damage, it, probe>>

\* the Wal goes out of scope: BufWriter's Drop writes the buffer out, without fsync
Drop ==
    /\ wal.open
    /\ disk' = IF Linked THEN [disk EXCEPT ![wal.id] = @ \o wal.buf] ELSE disk
    /\ wal' = NoWal
    /\ rec' = NoRec
    /\ UNCHANGED <<memVars, synced, appended, durable, nrec, damage, it, probe>>

\* the machine goes down: the BufWriter's bytes are lost, and file f keeps only n
\* bytes, no fewer than what was synced; nothing is written afterwards
Crash(f, n) ==
    /\ damage = NoDamage
    /\ f \in DOMAIN disk
    /\ synced[f] <= n /\ n <= Len(disk[f])
    /\ disk' = [disk EXCEPT ![f] = SubSeq(@, 1, n)]
    /\ wal' = NoWal
    /\ damage' = [kind |-> "crash", file |-> f, len |-> n]
    /\ rec' = NoRec
    /\ it' = NoIter
    /\ UNCHANGED <<memVars, synced, appended, durable, nrec, probe>>

\* one bit of a closed file changes on the medium: bit `bit` of its byte number pos
FlipBit(f, pos, bit) ==
    /\ damage = NoDamage
    /\ ~wal.open
    /\ f \in DOMAIN disk
    /\ pos \in 1..Len(disk[f])
    /\ disk' = [disk EXCEPT ![f][pos] = Xor8(@, 2^bit)]
    /\ damage' = [kind |-> "flip", file |-> f, pos |-> pos, bit |-> bit]
    /\ rec' = NoRec
    /\ it' = NoIter
    /\ UNCHANGED <<memVars, synced, wal, appended, durable, nrec, probe>>

\* a record with a checksum that fits its bytes, as a program other than WalWriter
\* (or a corruption) may leave it: the fields are taken as given
forge(payload_len, tag, seq, key_len, rest) ==
    with_crc(payload_len \o <<tag>> \o seq \o key_len \o rest)

\* bytes that WalWriter did not write are found at the end of a closed file
Forge(f, bytes) ==
    /\ damage = NoDamage
    /\ ~wal.open
    /\ f \in DOMAIN disk
    /\ disk' = [disk EXCEPT ![f] = @ \o bytes]
    /\ damage' = [kind |-> "forge", file |-> f, pos |-> Len(disk[f])]
    /\ rec' = NoRec
    /\ it' = NoIter
    /\ UNCHANGED <<memVars, synced, wal, appended, durable, nrec, probe>>

\* the size of the record WalWriter::append writes for an entry
RecordLen(e) == WAL_HEADER_SIZE + WAL_KEY_LEN_SIZE + Len(e.key) + serialized_len(e.val)

\* the offset in its file of the end of the first n of the records es
RECURSIVE RecordEnd(_, _)
RecordEnd(es, n) == IF n = 0 THEN 0 ELSE RecordEnd(es, n - 1) + RecordLen(es[n])

\* from now on the device fails, with an error other than unexpected-EOF, the read
\* of the record header that starts behind the first n records of closed file f
IoFault(f, n) ==
    /\ damage = NoDamage
    /\ ~wal.open
    /\ f \in DOMAIN disk
    /\ n \in 0..Len(appended[f])
    /\ damage' = [kind |-> "eio", file |-> f, pos |-> RecordEnd(appended[f], n)]
    /\ rec' = NoRec
    /\ it' = NoIter
    /\ UNCHANGED <<memVars, disk, synced, wal, appended, durable, nrec, probe>>

\* the environment of a read: the build and the allocator are free, the device is
\* as the damage left it
EnvOf(overflow_checks, oom) ==
    [overflow_checks |-> overflow_checks, oom |-> oom,
     eio_file |-> IF damage.kind = "eio" THEN damage.file ELSE 0,
     eio_pos |-> IF damage.kind = "eio" THEN damage.pos ELSE -1]

\* Wal::read_all_entries(dir, min_seq) as a call, made once on a state of the
\* directory (its result depends on nothing but the files, min_seq and the environment)
Recover(min_seq) ==
    /\ rec = NoRec
    /\ \E oc \in BOOLEAN, oom \in BOOLEAN :
           rec' = [call |-> [min_seq |-> min_seq, env |-> EnvOf(oc, oom)],
                   ret |-> read_all_entries(disk, min_seq, EnvOf(oc, oom))]
    /\ UNCHANGED <<memVars, disk, synced, wal, appended, durable, nrec, damage, it, probe>>

\* WalIterator::new(File::open(path)) on a file no Wal is writing
IterOpen(f) ==
    /\ ~wal.open
    /\ f \in DOMAIN disk
    /\ it' = [open |-> TRUE, file |-> f, start |-> 0, pos |-> 0, last |-> [kind |-> "new"]]
    /\ UNCHANGED <<memVars, disk, synced, wal, appended, durable, rec, nrec, damage, probe>>

\* an iterator whose reader stays where it was when read_next_entry fails
yielded_without_advance(i, res) ==
    [i EXCEPT !.start = i.pos,
              !.pos = IF res.kind \in {"panic", "err"} THEN i.pos ELSE res.pos,
              !.last = IF res.kind = "entry" THEN [kind |-> "entry", entry |-> res.entry]
                       ELSE IF res.kind = "err" THEN [kind |-> "err", err |-> res.err]
                       ELSE IF res.kind = "none" THEN [kind |-> "none"]
                       ELSE res]

\* the iterator after read_next_entry has returned res: Ok(Some(entry)) ->
\* Some(Ok(entry)), Ok(None) -> None, Err(e) -> Some(Err(e))
yielded(i, res) ==
    [i EXCEPT !.start = i.pos,
              !.pos = IF res.kind = "panic" THEN i.pos ELSE res.pos,
              !.last = IF res.kind = "entry" THEN [kind |-> "entry", entry |-> res.entry]
                       ELSE IF res.kind = "err" THEN [kind |-> "err", err |-> res.err]
                       ELSE IF res.kind = "none" THEN [kind |-> "none"]
                       ELSE res]

\* Iterator::next of WalIterator; a panic ends the iterator
IterNext ==
    /\ it.open
    /\ it.last.kind # "panic"
    /\ \E oc \in BOOLEAN, oom \in BOOLEAN :
           it' = yielded(it, read_next_entry(disk[it.file], it.pos,
                                             FileEnv(EnvOf(oc, oom), it.file)))
    /\ UNCHANGED <<memVars, disk, synced, wal, appended, durable, rec, nrec, damage, probe>>

\* `format!("{:09}.wal", file_id)`: the decimal digits of file_id as characters,
\* padded with '0' to nine, and the extension. A character is its ASCII code.
RECURSIVE DecimalDigits(_)
DecimalDigits(n) ==
    IF n < 10 THEN <<48 + n>> ELSE Append(DecimalDigits(n \div 10), 48 + (n % 10))
wal_file_name(file_id) ==
    [stem |-> [i \in 1..(9 - Len(DecimalDigits(file_id))) |-> 48] \o DecimalDigits(file_id),
     ext |-> "wal"]

\* `stem.parse::<u64>()` (u64::from_str): an optional '+', then the characters from
\* left to right. A character that is no digit is InvalidDigit; a digit that takes
\* the value read so far above u64::MAX is PosOverflow, so that an overflow ahead of
\* a character that is no digit is the error reported. The value read so far is
\* kept as its significant digits; an accepted stem gives its value as a number
\* for up to nine significant digits and as its significant digits beyond that,
\* which no file id of the model reaches.
ParseOk(value) == [ok |-> TRUE, value |-> value]
ParseErr(why) == [ok |-> FALSE, err |-> why]
RECURSIVE digits_value(_)
digits_value(digits) ==
    IF digits = <<>> THEN 0
    ELSE 10 * digits_value(SubSeq(digits, 1, Len(digits) - 1)) + (digits[Len(digits)] - 48)
\* the digits of u64::MAX, 18446744073709551615
U64_MAX_DIGITS ==
    <<49, 56, 52, 52, 54, 55, 52, 52, 48, 55, 51, 55, 48, 57, 53, 53, 49, 54, 49, 53>>
\* `result.checked_mul(10)` and `checked_add(x)` on the significant digits of result
\* give None
above_u64_max(digits) ==
    \/ Len(digits) > 20
    \/ Len(digits) = 20 /\ BytesLess(U64_MAX_DIGITS, digits)
\* result * 10 + x on the significant digits of result
mul_add(result, c) == IF result = <<>> /\ c = 48 THEN <<>> ELSE Append(result, c)
\* the loop `for &c in digits` with the value read so far
RECURSIVE parse_from(_, _)
parse_from(digits, result) ==
    IF digits = <<>> THEN ParseOk(IF Len(result) <= 9 THEN digits_value(result) ELSE result)
    ELSE IF Head(digits) \notin 48..57 THEN ParseErr("InvalidDigit")
    ELSE IF above_u64_max(mul_add(result, Head(digits))) THEN ParseErr("PosOverflow")
    ELSE parse_from(Tail(digits), mul_add(result, Head(digits)))
parse_digits(digits) ==
    IF digits = <<>> THEN ParseErr("InvalidDigit")
    ELSE parse_from(digits, <<>>)
parse_u64(src) ==
    IF src = <<>> THEN ParseErr("Empty")
    ELSE IF Head(src) = 43 THEN parse_digits(Tail(src))
    ELSE parse_digits(src)

\* a map without the key k
MapRemove(f, k) == IF DOMAIN f \subseteq {k} THEN << >> ELSE [x \in (DOMAIN f) \ {k} |-> f[x]]

\* a removal that takes a missing file for removed
remove_file_if_exists(dir, file_id) ==
    [ok |-> TRUE, dir |-> MapRemove(dir, file_id)]

\* `fs::remove_file(&path).with_context(&path)` of Wal::delete on the directory dir:
\* the directory afterwards, and Ok(()) or the io::Error as a WalError::Read
remove_file(dir, file_id) ==
    IF file_id \in DOMAIN dir
    THEN [ok |-> TRUE, dir |-> MapRemove(dir, file_id)]
    ELSE [ok |-> FALSE, dir |-> dir,
          err |-> [type |-> "Read", path |-> wal_file_name(file_id), source |-> "NotFound"]]

\* Wal::delete(dir, file_id), with r what remove_file came to. It is an associated
\* function and touches no Wal: a Wal that writes the file stays open, with its
\* buffer, on the file that has lost its name
Deleted(file_id, r) ==
    /\ disk' = r.dir
    /\ synced' = IF r.ok THEN MapRemove(synced, file_id) ELSE synced
    /\ appended' = IF r.ok THEN MapRemove(appended, file_id) ELSE appended
    /\ durable' = IF r.ok THEN MapRemove(durable, file_id) ELSE durable
    /\ wal' = wal
    /\ probe' = [kind |-> "delete", file_id |-> file_id, path |-> wal_file_name(file_id),
                 ok |-> r.ok, res |-> r,
                 removed |-> IF file_id \in DOMAIN appended THEN appended[file_id] ELSE <<>>]
    /\ rec' = NoRec
    /\ it' = NoIter
    /\ UNCHANGED <<memVars, nrec, damage>>

WalDelete(file_id) == Deleted(file_id, remove_file(disk, file_id))

\* one entry of fs::read_dir(&dir): its name as Path::file_stem and Path::extension
\* split it, whether path.is_file(), whether the process may open the file for
\* reading, the bytes of the file, and the entries these bytes were written from
\* (none for bytes that WalWriter did not write)
DirEntry(stem, ext, is_file, bytes, records) ==
    [stem |-> stem, ext |-> ext, is_file |-> is_file, readable |-> TRUE,
     bytes |-> bytes, records |-> records]

\* the entry with a mode that denies the process the read (mode 000)
Unreadable(entry) == [entry EXCEPT !.readable = FALSE]

\* what the platform does to a listing of the directory: nothing, fs::read_dir
\* fails (the directory may not be listed, or is none), or the iteration fails
\* behind the first n entries
NoFault == [at |-> "none"]
ReadDirFault(kind) == [at |-> "read_dir", kind |-> kind]
EntryFault(n) == [at |-> "entry", after |-> n, kind |-> "Other"]

\* the environment of a call of read_all_entries on a directory
ScanEnv(overflow_checks, oom, fault) ==
    [overflow_checks |-> overflow_checks, oom |-> oom,
     eio_file |-> EnvOf(overflow_checks, oom).eio_file,
     eio_pos |-> EnvOf(overflow_checks, oom).eio_pos,
     dir_fault |-> fault]

\* the path `dir`, and a WalError::Read with its path and its io::Error
DirPath == [stem |-> <<46>>, ext |-> ""]
ReadErrorAt(path, kind) ==
    [kind |-> "err", err |-> [type |-> "Read", path |-> path,
                              source |-> [type |-> "Io", kind |-> kind]]]

\* a scan that takes every regular file with a numeric stem, whatever its extension
selected_any_extension(entry) == entry.is_file /\ parse_u64(entry.stem).ok

\* the entries that read_all_entries pushes to wal_files: not skipped by
\* `!path.is_file() || path.extension() != Some("wal")`, and `stem.parse::<u64>()` is Ok
selected(entry) == entry.is_file /\ entry.ext = "wal" /\ parse_u64(entry.stem).ok

\* `fs::read_dir(&dir)` on a directory that the platform lists in the order of
\* listing: an io::Error, or the items of the iterator, each an entry or an io::Error
read_dir(listing, fault) ==
    IF fault.at = "read_dir" THEN [ok |-> FALSE, kind |-> fault.kind]
    ELSE IF fault.at = "entry" /\ fault.after <= Len(listing)
    THEN [ok |-> TRUE,
          items |-> [i \in 1..(fault.after + 1) |->
                        IF i <= fault.after THEN [ok |-> TRUE, entry |-> listing[i]]
                        ELSE [ok |-> FALSE, kind |-> fault.kind]]]
    ELSE [ok |-> TRUE, items |-> [i \in DOMAIN listing |-> [ok |-> TRUE, entry |-> listing[i]]]]

\* `for entry in read_dir`: wal_files in the order of the listing, or the
\* WalError::Read of `entry.with_context(&dir)?`
RECURSIVE scan(_, _)
scan(items, wal_files) ==
    IF items = <<>> THEN [ok |-> TRUE, wal_files |-> wal_files]
    ELSE IF ~Head(items).ok THEN [ok |-> FALSE, ret |-> ReadErrorAt(DirPath, Head(items).kind)]
    ELSE scan(Tail(items),
              IF selected(Head(items).entry)
              THEN Append(wal_files,
                          [id |-> parse_u64(Head(items).entry.stem).value,
                           path |-> [stem |-> Head(items).entry.stem,
                                     ext |-> Head(items).entry.ext],
                           readable |-> Head(items).entry.readable,
                           bytes |-> Head(items).entry.bytes,
                           records |-> Head(items).entry.records])
              ELSE wal_files)

\* read_all_entries up to the sort of wal_files: wal_files, or the WalError::Read
\* of `fs::read_dir(&dir).with_context(&dir)?` or of the loop
scanned(listing, fault) ==
    IF ~read_dir(listing, fault).ok
    THEN [ok |-> FALSE, ret |-> ReadErrorAt(DirPath, read_dir(listing, fault).kind)]
    ELSE scan(read_dir(listing, fault).items, <<>>)

\* a scan that reads the files in the order read_dir has listed them
as_listed(files) == {files}

\* what `wal_files.sort_unstable_by_key(|&(id, _)| id)` may leave: the files in
\* ascending order of id, files of one id in either order
SortedById(files) ==
    {[i \in DOMAIN files |-> files[p[i]]] :
        p \in {q \in [DOMAIN files -> DOMAIN files] :
                  /\ \A i \in DOMAIN files : \E j \in DOMAIN files : q[j] = i
                  /\ \A i \in DOMAIN files : \A j \in DOMAIN files :
                         i < j => files[q[i]].id <= files[q[j]].id}}

\* `File::open(path)`: the file is opened for reading, which leaves every entry of
\* the directory and its bytes as they are, or the open is denied
File_open(dir, file) ==
    IF file.readable THEN [ok |-> TRUE, dir |-> dir, bytes |-> file.bytes]
    ELSE [ok |-> FALSE, dir |-> dir, kind |-> "PermissionDenied"]

\* `for (file_id, path) in &wal_files` of read_all_entries over wal_files as a list:
\* `File::open(path).with_context(path)?`, then the records of the file;
\* after_file goes on from the result r of the first file of the list
RECURSIVE read_files(_, _, _, _, _)
RECURSIVE after_file(_, _, _, _, _)
read_files(dir, files, env, min_seq, acc) ==
    IF files = <<>> THEN [kind |-> "ok", acc |-> acc]
    ELSE IF ~File_open(dir, Head(files)).ok
    THEN ReadErrorAt(Head(files).path, File_open(dir, Head(files)).kind)
    ELSE after_file(dir, files, env, min_seq,
                    ReadFile(File_open(dir, Head(files)).bytes, 0,
                             FileEnv(env, Head(files).id), min_seq, acc))

after_file(dir, files, env, min_seq, r) ==
    IF r.kind = "ok" THEN read_files(dir, Tail(files), env, min_seq, r.acc)
    ELSE IF r.kind = "err"
         THEN [kind |-> "err",
               err |-> [type |-> "Read", path |-> Head(files).path, source |-> r.err]]
    ELSE r

\* the entries of a directory that read_dir has listed
Entries(listing) == {listing[i] : i \in DOMAIN listing}

\* the orders in which the platform and the file system may list a directory
Orders(dir) ==
    {l \in [1..Cardinality(dir) -> dir] :
        \A i \in 1..Cardinality(dir) : \A j \in 1..Cardinality(dir) : l[i] = l[j] => i = j}

\* the directory after the File::open calls of the loop over wal_files
RECURSIVE open_all(_, _)
open_all(dir, files) ==
    IF files = <<>> THEN dir ELSE open_all(File_open(dir, Head(files)).dir, Tail(files))

\* wal_files after the sort, where the scan has come that far
sorted_files(sc) == IF sc.ok THEN SortedById(sc.wal_files) ELSE {<<>>}

\* what read_all_entries comes to with wal_files sorted as files
read_sorted(dir, sc, files, env, min_seq) ==
    IF sc.ok THEN read_files(dir, files, env, min_seq, [entries |-> <<>>, max_seq |-> 0])
    ELSE sc.ret

\* Wal::read_all_entries(dir, min_seq) on a directory with the given listing, files
\* being wal_files as sorted, and r what the call came to before the final sort
Scanned(listing, min_seq, env, files, r) ==
    /\ probe = NoProbe
    /\ probe' = [kind |-> "scan", listing |-> listing, min_seq |-> min_seq, env |-> env,
                 files |-> files, read |-> unsorted(r), ret |-> sorted(r),
                 dir |-> open_all(Entries(listing), files)]
    /\ UNCHANGED <<memVars, disk, synced, wal, appended, durable, rec, nrec, damage, it>>

\* the call from the sort of wal_files on, sc being what the scan came to
ScanSorted(listing, min_seq, env, sc) ==
    \E files \in sorted_files(sc) :
        Scanned(listing, min_seq, env, files,
                read_sorted(Entries(listing), sc, files, env, min_seq))

\* the call in one of the environments envs
ScanDir(listing, min_seq, envs) ==
    /\ probe = NoProbe
    /\ \E env \in envs : ScanSorted(listing, min_seq, env, scanned(listing, env.dir_fault))

\* Wal::read_all_entries(dir, min_seq) called once more with the same min_seq, in
\* the same build and on the same machine, on the directory as the first call has
\* left it: read_dir lists it anew, wal_files is sorted anew, and r is what the
\* call came to before the final sort
Rescanned(listing, files, r) ==
    /\ probe' = [kind |-> "scan", listing |-> probe.listing, min_seq |-> probe.min_seq,
                 env |-> probe.env, files |-> probe.files, read |-> probe.read,
                 ret |-> probe.ret, dir |-> probe.dir,
                 listing2 |-> listing, files2 |-> files, again |-> sorted(r),
                 dir2 |-> open_all(Entries(listing), files)]
    /\ UNCHANGED <<memVars, disk, synced, wal, appended, durable, rec, nrec, damage, it>>

RescanSorted(listing, sc) ==
    \E files \in sorted_files(sc) :
        Rescanned(listing, files, read_sorted(probe.dir, sc, files, probe.env, probe.min_seq))

ScanAgain ==
    /\ probe.kind = "scan"
    /\ "again" \notin DOMAIN probe
    /\ \E listing \in Orders(probe.dir) :
           RescanSorted(listing, scanned(listing, probe.env.dir_fault))

\* the longest record the model writes
MaxRecordLen == WAL_HEADER_SIZE + WAL_KEY_LEN_SIZE + 1 + WAL_EXPIRE_LEN_SIZE + 1

(***************************************************************************)
(* Records too long to be held byte by byte: writer and reader on lengths   *)
(***************************************************************************)
\* ValueType::serialized_len of a value of the given variant with data_len data bytes
serialized_len_of(tag, dlen) ==
    (IF tag = TOMBSTONE_VALUE_TYPE THEN VALUE_TOMBSTONE_LEN ELSE dlen)
    + (IF tag = EXPIRING_VALUE_TYPE THEN VALUE_EXPIRING_AT_LEN ELSE 0)

\* WalWriter::append on lengths: the PayloadLen and KeyLen fields it writes and the
\* number of bytes it writes behind the KeyLen field
append_lengths(klen, tag, dlen) ==
    LET key_len == klen
        val_len == serialized_len_of(tag, dlen)
        payload_len == WAL_KEY_LEN_SIZE + key_len + val_len
        value_section == IF tag = NORMAL_VALUE_TYPE THEN dlen
                         ELSE IF tag = TOMBSTONE_VALUE_TYPE THEN 0
                         ELSE WAL_EXPIRE_LEN_SIZE + dlen
    IN  [payload_len |-> to_be_bytes(payload_len), key_len |-> to_be_bytes(key_len),
         body |-> key_len + value_section]

\* read_next_entry behind the length checks lens of a record the writer wrote with
\* that tag: the checksum is the one of the very bytes the writer hashed, then the
\* variant follows the tag
decode_lengths(lens, tag) ==
    IF lens.kind # "ok" THEN lens
    ELSE IF tag = NORMAL_VALUE_TYPE
         THEN [kind |-> "entry", key_len |-> lens.key_len, tag |-> tag,
               data_len |-> lens.val_len]
    ELSE IF tag = TOMBSTONE_VALUE_TYPE
         THEN [kind |-> "entry", key_len |-> lens.key_len, tag |-> tag, data_len |-> 0]
    ELSE IF lens.val_len < WAL_EXPIRE_LEN_SIZE THEN RPanic("slice index out of range")
    ELSE [kind |-> "entry", key_len |-> lens.key_len, tag |-> tag,
          data_len |-> lens.val_len - WAL_EXPIRE_LEN_SIZE]

\* read_next_entry on the record w that append_lengths describes
read_back_lengths(w, tag, env) ==
    decode_lengths(read_lengths(w.payload_len, w.key_len, w.body, env), tag)

\* key and data lengths around the reader's limits
KeyLens == {0, 1, WAL_MAX_KEY_SIZE - 1, WAL_MAX_KEY_SIZE, WAL_MAX_KEY_SIZE + 1}
DataLens ==
    {0, 1, WAL_MAX_VAL_SIZE - 8, WAL_MAX_VAL_SIZE - 7, WAL_MAX_VAL_SIZE, WAL_MAX_VAL_SIZE + 1}
ValueTags == {NORMAL_VALUE_TYPE, TOMBSTONE_VALUE_TYPE, EXPIRING_VALUE_TYPE}

\* PayloadLen and KeyLen fields as a file may hold them, and how many bytes follow
PayloadLenFields ==
    {to_be_bytes(0), to_be_bytes(8), to_be_bytes(9), to_be_bytes(WAL_MAX_KEY_SIZE + 9),
     to_be_bytes(WAL_MAX_VAL_SIZE + 10), <<255, 255, 255, 255, 255, 255, 255, 255>>}
KeyLenFields ==
    {to_be_bytes(0), to_be_bytes(1), to_be_bytes(WAL_MAX_KEY_SIZE),
     to_be_bytes(WAL_MAX_KEY_SIZE + 1), <<0, 0, 1, 0, 0, 0, 0, 0>>,
     <<128, 0, 0, 0, 0, 0, 0, 0>>}
BytesBehind == {0, 1, WAL_MAX_KEY_SIZE + 1, WAL_MAX_KEY_SIZE + 2}

\* an entry with a key of klen bytes and a value of the variant tag with dlen data
\* bytes is appended to an empty file, synced, and read back
RoundTripLengths(klen, tag, dlen) ==
    /\ tag = TOMBSTONE_VALUE_TYPE => dlen = 0
    /\ \E oc \in BOOLEAN, oom \in BOOLEAN :
           probe' = [kind |-> "roundtrip", key_len |-> klen, tag |-> tag, data_len |-> dlen,
                     res |-> read_back_lengths(append_lengths(klen, tag, dlen), tag,
                                               [overflow_checks |-> oc, oom |-> oom])]
    /\ UNCHANGED <<memVars, disk, synced, wal, appended, durable, rec, nrec, damage, it>>

\* the iterator meets a record with the given PayloadLen and KeyLen fields, behind
\* which the file holds `behind` more bytes
ReadHeader(payload_len, key_len, behind) ==
    /\ \E oc \in BOOLEAN, oom \in BOOLEAN :
           probe' = [kind |-> "header", payload_len |-> payload_len, key_len |-> key_len,
                     behind |-> behind,
                     res |-> read_lengths(payload_len, key_len, behind,
                                          [overflow_checks |-> oc, oom |-> oom])]
    /\ UNCHANGED <<memVars, disk, synced, wal, appended, durable, rec, nrec, damage, it>>

(***************************************************************************)
(* types.rs: equality and ordering of Entry                                *)
(***************************************************************************)
\* Ord::cmp for Bytes: lexicographic on unsigned bytes, a proper prefix is Less
RECURSIVE bytes_cmp(_, _)
bytes_cmp(a, b) ==
    IF a = <<>> /\ b = <<>> THEN "Equal"
    ELSE IF a = <<>> THEN "Less"
    ELSE IF b = <<>> THEN "Greater"
    ELSE IF Head(a) < Head(b) THEN "Less"
    ELSE IF Head(a) > Head(b) THEN "Greater"
    ELSE bytes_cmp(Tail(a), Tail(b))

\* Ord::cmp for u64
u64_cmp(a, b) == IF a < b THEN "Less" ELSE IF a > b THEN "Greater" ELSE "Equal"

\* Ordering::then
then(first, second) == IF first = "Equal" THEN second ELSE first

\* an Entry ordering with the seqs ascending within a key
cmp_seq_ascending(self, other) ==
    then(bytes_cmp(self.key, other.key), u64_cmp(self.seq, other.seq))

\* Ord for Entry: self.key.cmp(&other.key).then(other.seq.cmp(&self.seq))
cmp(self, other) == then(bytes_cmp(self.key, other.key), u64_cmp(other.seq, self.seq))

\* an Entry equality that looks at the value as well
eq_with_value(self, other) ==
    self.seq = other.seq /\ self.key = other.key /\ self.val = other.val

\* PartialEq for Entry: self.seq == other.seq && self.key == other.key
eq(self, other) == self.seq = other.seq /\ self.key = other.key

\* one insertion of the stable sort: e goes behind every element that is not
\* Greater than it
RECURSIVE InsertByCmp(_, _)
InsertByCmp(es, e) ==
    IF es = <<>> THEN <<e>>
    ELSE IF cmp(Head(es), e) = "Greater" THEN <<e>> \o es
    ELSE <<Head(es)>> \o InsertByCmp(Tail(es), e)

\* <[Entry]>::sort: the stable sort by Ord for Entry
RECURSIVE sort(_)
sort(es) ==
    IF es = <<>> THEN <<>>
    ELSE InsertByCmp(sort(SubSeq(es, 1, Len(es) - 1)), es[Len(es)])

\* the entries that are compared and sorted: two versions of two of the keys, one
\* of them with two different values, and a key with a byte above 127
OrdEntries ==
    {Entry(1, <<>>, Tombstone), Entry(2, <<>>, Normal(<<120>>)),
     Entry(1, <<97>>, Normal(<<>>)), Entry(2, <<97>>, Normal(<<>>)),
     Entry(2, <<97>>, Normal(<<120>>)), Entry(2, <<97, 98>>, Tombstone),
     Entry(1, <<200>>, Tombstone)}
\* the longest vector that is sorted
MaxVec == 3
Vectors == UNION {[1..n -> OrdEntries] : n \in 0..MaxVec}

\* a.cmp(&b) and a == b as calls, made once
Compare(a, b) ==
    /\ probe = NoProbe
    /\ probe' = [kind |-> "cmp", a |-> a, b |-> b, ord |-> cmp(a, b), eq |-> eq(a, b)]
    /\ UNCHANGED <<memVars, disk, synced, wal, appended, durable, rec, nrec, damage, it>>

\* entries.sort() as a call
Sort(es) ==
    /\ probe = NoProbe
    /\ probe' = [kind |-> "sort", input |-> es, res |-> sort(es)]
    /\ UNCHANGED <<memVars, disk, synced, wal, appended, durable, rec, nrec, damage, it>>

(***************************************************************************)
(* sstable/format.rs: the varint codec and BlockHandle                     *)
(*                                                                         *)
(* A u64 of the codec is kept as its 64 bits, the lowest first.            *)
(***************************************************************************)
\* the u64 with the value n, for n below 2^31
U64(n) == [i \in 1..64 |-> IF i <= 31 THEN Bit(n, 2^(i - 1)) ELSE 0]
\* 2^n - 1 and 2^n as u64
Ones(n) == [i \in 1..64 |-> IF i <= n THEN 1 ELSE 0]
Pow2(n) == [i \in 1..64 |-> IF i = n + 1 THEN 1 ELSE 0]
U64_MAX == Ones(64)

\* `v >= 0x80`
ge_0x80(v) == \E i \in 8..64 : v[i] = 1
\* `v as u8`
as_u8(v) == v[1] + 2 * v[2] + 4 * v[3] + 8 * v[4] + 16 * v[5] + 32 * v[6] + 64 * v[7]
            + 128 * v[8]
\* `b | 0x80` on a byte
or_0x80(b) == IF b >= 128 THEN b ELSE b + 128
\* `v >>= 7`
shr7(v) == [i \in 1..64 |-> IF i + 7 <= 64 THEN v[i + 7] ELSE 0]

\* varint::encode(value, buf): the buffer after the call
RECURSIVE varint_encode(_, _)
varint_encode(v, buf) ==
    IF ge_0x80(v) THEN varint_encode(shr7(v), Append(buf, or_0x80(as_u8(v))))
    ELSE Append(buf, as_u8(v))

\* Ok((value, read)) and Err(SSTableError::Decode(msg)); `at` is the number the
\* message carries
DecodeOk(value, read) == [ok |-> TRUE, value |-> value, read |-> read]
DecodeErr(msg, at) == [ok |-> FALSE, err |-> [type |-> "Decode", msg |-> msg, at |-> at]]

\* `result |= ((byte & 0x7F) as u64) << shift`, for a shift below 64: the bits
\* shifted beyond bit 63 are lost
or_shifted(result, byte, shift) ==
    [i \in 1..64 |->
        IF result[i] = 1 \/ (i - shift \in 1..7 /\ Bit(byte, 2^(i - shift - 1)) = 1)
        THEN 1 ELSE 0]

\* a length check that lets a varint of any length through
too_long_never(shift) == FALSE

\* `shift >= 64`
too_long(shift) == shift >= 64

\* the loop of varint::decode from the byte with the index i (0-based) on
RECURSIVE decode_from(_, _, _, _)
RECURSIVE decode_byte(_, _, _, _)
decode_from(data, i, result, shift) ==
    IF i >= Len(data)
    THEN DecodeErr("incomplete varint: expected more bytes", Len(data))
    ELSE IF too_long(shift) THEN DecodeErr("varint too long: exceeds 64 bits", i)
    ELSE decode_byte(data, i, or_shifted(result, data[i + 1], shift), shift)

\* the rest of one iteration, result holding the bits of the byte with the index i
decode_byte(data, i, result, shift) ==
    IF data[i + 1] < 128 THEN DecodeOk(result, i + 1)
    ELSE decode_from(data, i + 1, result, shift + 7)

\* varint::decode
varint_decode(data) ==
    IF data = <<>> THEN DecodeErr("empty varint data", 0)
    ELSE decode_from(data, 0, U64(0), 0)

\* `64 - value.leading_zeros()`
bit_len(v) ==
    IF \A i \in 1..64 : v[i] = 0 THEN 0
    ELSE CHOOSE n \in 1..64 : v[n] = 1 /\ \A i \in (n + 1)..64 : v[i] = 0

\* a size that is one byte too large when the bit length is a multiple of 7
varint_encoded_size_plus_one(v) == bit_len(v) \div 7 + 1

\* varint::encoded_size
varint_encoded_size(v) == IF bit_len(v) = 0 THEN 1 ELSE (bit_len(v) + 6) \div 7

\* BlockHandle::new
BlockHandle(offset, block_size) == [offset |-> offset, size |-> block_size]

\* BlockHandle::encoded_size
BlockHandle_encoded_size(h) == varint_encoded_size(h.offset) + varint_encoded_size(h.size)

\* BlockHandle::encode
BlockHandle_encode(h) == varint_encode(h.size, varint_encode(h.offset, <<>>))

\* a decoder that takes a size it cannot read for 0
decode_size_or_zero(data, first) ==
    IF ~first.ok THEN first
    ELSE IF ~varint_decode(SubSeq(data, first.read + 1, Len(data))).ok
         THEN DecodeOk(BlockHandle(first.value, U64(0)), first.read)
    ELSE DecodeOk(BlockHandle(first.value,
                              varint_decode(SubSeq(data, first.read + 1, Len(data))).value),
                  first.read + varint_decode(SubSeq(data, first.read + 1, Len(data))).read)

\* BlockHandle::decode behind its first varint::decode, which gave `first`
decode_size(data, first) ==
    IF ~first.ok THEN first
    ELSE IF ~varint_decode(SubSeq(data, first.read + 1, Len(data))).ok
         THEN varint_decode(SubSeq(data, first.read + 1, Len(data)))
    ELSE DecodeOk(BlockHandle(first.value,
                              varint_decode(SubSeq(data, first.read + 1, Len(data))).value),
                  first.read + varint_decode(SubSeq(data, first.read + 1, Len(data))).read)

\* BlockHandle::decode
BlockHandle_decode(data) == decode_size(data, varint_decode(data))

\* the u64 values that are encoded: every 2^n - 1, every 2^n, and 300
VarintValues ==
    {Ones(n) : n \in 0..64} \cup {Pow2(n) : n \in 0..63} \cup {U64(300)}

\* the inputs of the decoder: n bytes with the continuation bit, all 0x80 or all
\* 0xFF, and behind them nothing, a last byte, or a last byte and one more
MaxContinued == 12
Continued(b, n) == [i \in 1..n |-> b]
VarintInputs ==
    {Continued(b, n) \o tail :
        b \in {128, 255}, n \in 0..MaxContinued,
        tail \in {<<>>, <<0>>, <<1>>, <<127>>, <<1, 128>>}}

\* the offsets and sizes of the block handles
HandleValues == {U64(0), U64(127), U64(128), U64(300), Ones(32), Ones(63), U64_MAX}

\* varint::encode(v), encoded_size(v) and decode of what encode gave
VarintRoundTrip(v) ==
    /\ probe = NoProbe
    /\ probe' = [kind |-> "varint", value |-> v, encoded |-> varint_encode(v, <<>>),
                 size |-> varint_encoded_size(v),
                 decoded |-> varint_decode(varint_encode(v, <<>>))]
    /\ UNCHANGED <<memVars, disk, synced, wal, appended, durable, rec, nrec, damage, it>>

\* varint::decode(data) as a call
VarintDecode(data) ==
    /\ probe = NoProbe
    /\ probe' = [kind |-> "decode", data |-> data, res |-> varint_decode(data)]
    /\ UNCHANGED <<memVars, disk, synced, wal, appended, durable, rec, nrec, damage, it>>

\* h.encode(), h.encoded_size() and BlockHandle::decode of what encode gave
HandleRoundTrip(h) ==
    /\ probe = NoProbe
    /\ probe' = [kind |-> "handle", handle |-> h, encoded |-> BlockHandle_encode(h),
                 size |-> BlockHandle_encoded_size(h),
                 decoded |-> BlockHandle_decode(BlockHandle_encode(h))]
    /\ UNCHANGED <<memVars, disk, synced, wal, appended, durable, rec, nrec, damage, it>>

\* BlockHandle::decode of the first n bytes of h.encode(), n short of all of them
HandleDecodeCut(h, n) ==
    /\ probe = NoProbe
    /\ n < Len(BlockHandle_encode(h))
    /\ probe' = [kind |-> "cut", handle |-> h, len |-> n,
                 offset_len |-> Len(varint_encode(h.offset, <<>>)),
                 res |-> BlockHandle_decode(SubSeq(BlockHandle_encode(h), 1, n))]
    /\ UNCHANGED <<memVars, disk, synced, wal, appended, durable, rec, nrec, damage, it>>

(***************************************************************************)
(* sstable/format.rs: Footer                                               *)
(***************************************************************************)
\* the size of the footer and of its magic number, in bytes
FOOTER_SIZE == 48
MAGIC_SIZE == 8

\* u64::to_be_bytes and u64::from_be_bytes on a u64 kept as its 64 bits
u64_to_be_bytes(v) ==
    [i \in 1..8 |->
        v[8 * (8 - i) + 1] + 2 * v[8 * (8 - i) + 2] + 4 * v[8 * (8 - i) + 3]
        + 8 * v[8 * (8 - i) + 4] + 16 * v[8 * (8 - i) + 5] + 32 * v[8 * (8 - i) + 6]
        + 64 * v[8 * (8 - i) + 7] + 128 * v[8 * (8 - i) + 8]]
u64_from_be_bytes(b) ==
    [i \in 1..64 |-> Bit(b[8 - ((i - 1) \div 8)], 2^((i - 1) % 8))]

\* the magic number of the format, 0xB00C_C0FF_EE00_0001
MAGIC == u64_from_be_bytes(<<176, 12, 192, 255, 238, 0, 0, 1>>)

\* Footer::new
Footer_new(meta_index, index) ==
    [meta_index_handle |-> meta_index, index_handle |-> index, magic |-> MAGIC]

\* a padding that leaves room for the magic number twice
padding_size_magic_twice(meta_index_size, index_size) ==
    FOOTER_SIZE - (meta_index_size + index_size + 2 * MAGIC_SIZE)

\* `FOOTER_SIZE - (meta_index_size + index_size + MAGIC_SIZE)` as an integer: below
\* zero where the usize subtraction overflows
padding_size(meta_index_size, index_size) ==
    FOOTER_SIZE - (meta_index_size + index_size + MAGIC_SIZE)

\* what Footer::encode leaves in dst, or the panic of a split_at_mut beyond the
\* buffer, of the subtraction, or of a copy_from_slice between unequal lengths (a
\* handle and its encoded_size, the rest of the buffer and the magic number)
EncodePanic == [panic |-> TRUE]
Encoded(dst) == [panic |-> FALSE, dst |-> dst]

\* an encode that leaves the padding as the caller's buffer had it
Footer_encode_without_fill(footer, dst) ==
    IF \/ padding_size(BlockHandle_encoded_size(footer.meta_index_handle),
                       BlockHandle_encoded_size(footer.index_handle)) < 0
       \/ Len(BlockHandle_encode(footer.meta_index_handle))
              # BlockHandle_encoded_size(footer.meta_index_handle)
       \/ Len(BlockHandle_encode(footer.index_handle))
              # BlockHandle_encoded_size(footer.index_handle)
       \/ FOOTER_SIZE - (BlockHandle_encoded_size(footer.meta_index_handle)
                         + BlockHandle_encoded_size(footer.index_handle)
                         + padding_size(BlockHandle_encoded_size(footer.meta_index_handle),
                                        BlockHandle_encoded_size(footer.index_handle)))
              # MAGIC_SIZE
    THEN EncodePanic
    ELSE Encoded(BlockHandle_encode(footer.meta_index_handle)
                 \o BlockHandle_encode(footer.index_handle)
                 \o SubSeq(dst, BlockHandle_encoded_size(footer.meta_index_handle)
                                + BlockHandle_encoded_size(footer.index_handle) + 1,
                           FOOTER_SIZE - MAGIC_SIZE)
                 \o u64_to_be_bytes(MAGIC))

\* Footer::encode(&self, dst): the handles, the padding filled with 0, MAGIC
Footer_encode(footer, dst) ==
    IF \/ padding_size(BlockHandle_encoded_size(footer.meta_index_handle),
                       BlockHandle_encoded_size(footer.index_handle)) < 0
       \/ Len(BlockHandle_encode(footer.meta_index_handle))
              # BlockHandle_encoded_size(footer.meta_index_handle)
       \/ Len(BlockHandle_encode(footer.index_handle))
              # BlockHandle_encoded_size(footer.index_handle)
       \/ FOOTER_SIZE - (BlockHandle_encoded_size(footer.meta_index_handle)
                         + BlockHandle_encoded_size(footer.index_handle)
                         + padding_size(BlockHandle_encoded_size(footer.meta_index_handle),
                                        BlockHandle_encoded_size(footer.index_handle)))
              # MAGIC_SIZE
    THEN EncodePanic
    ELSE Encoded(BlockHandle_encode(footer.meta_index_handle)
                 \o BlockHandle_encode(footer.index_handle)
                 \o [i \in 1..padding_size(BlockHandle_encoded_size(footer.meta_index_handle),
                                           BlockHandle_encoded_size(footer.index_handle))
                       |-> 0]
                 \o u64_to_be_bytes(MAGIC))

\* Footer::decode behind its two BlockHandle::decode calls, which gave meta and index
decode_magic(data, meta, index) ==
    [ok |-> TRUE,
     footer |-> [meta_index_handle |-> meta.value, index_handle |-> index.value,
                 magic |-> u64_from_be_bytes(SubSeq(data, FOOTER_SIZE - MAGIC_SIZE + 1,
                                                    FOOTER_SIZE))]]

\* Footer::decode behind its first BlockHandle::decode, which gave meta
decode_index(data, meta, index) ==
    IF ~index.ok THEN index ELSE decode_magic(data, meta, index)

\* Footer::decode(data) of the FOOTER_SIZE bytes data
Footer_decode(data) ==
    IF ~BlockHandle_decode(data).ok THEN BlockHandle_decode(data)
    ELSE decode_index(data, BlockHandle_decode(data),
                      BlockHandle_decode(SubSeq(data, BlockHandle_decode(data).read + 1,
                                                Len(data))))

\* a validation that every magic number passes
validate_magic_always(footer) == TRUE

\* Footer::validate_magic
validate_magic(footer) == footer.magic = MAGIC

\* the offsets and sizes of the footers' handles, what the caller's buffer holds
\* before encode, and the eight bytes found in the place of the magic number
FooterValues == {U64(0), U64(300), Ones(63), U64_MAX}
BufferFills == {0, 255}
MagicBytes ==
    {u64_to_be_bytes(MAGIC), <<176, 12, 192, 255, 238, 0, 0, 0>>, Continued(0, 8),
     Continued(255, 8), <<1, 0, 0, 238, 255, 192, 12, 176>>}

\* Footer::new(meta, index).encode(&mut dst) on a buffer of FOOTER_SIZE bytes fill,
\* and Footer::decode of what encode left
FooterEncoded(footer, fill, enc) ==
    /\ probe = NoProbe
    /\ probe' = [kind |-> "footer", footer |-> footer, fill |-> fill,
                 meta_size |-> BlockHandle_encoded_size(footer.meta_index_handle),
                 index_size |-> BlockHandle_encoded_size(footer.index_handle),
                 padding |-> padding_size(BlockHandle_encoded_size(footer.meta_index_handle),
                                          BlockHandle_encoded_size(footer.index_handle)),
                 encoded |-> enc,
                 decoded |-> IF enc.panic THEN enc ELSE Footer_decode(enc.dst),
                 valid |-> validate_magic(footer)]
    /\ UNCHANGED <<memVars, disk, synced, wal, appended, durable, rec, nrec, damage, it>>

FooterRoundTrip(meta, index, fill) ==
    FooterEncoded(Footer_new(meta, index), fill,
                  Footer_encode(Footer_new(meta, index), Continued(fill, FOOTER_SIZE)))

\* Footer::decode of an encoded footer whose last MAGIC_SIZE bytes are magic_bytes,
\* and validate_magic of the footer it returns
FooterDecoded(data, magic_bytes, res) ==
    /\ probe = NoProbe
    /\ probe' = [kind |-> "magic", data |-> data, magic_bytes |-> magic_bytes, res |-> res,
                 valid |-> IF res.ok THEN validate_magic(res.footer) ELSE FALSE]
    /\ UNCHANGED <<memVars, disk, synced, wal, appended, durable, rec, nrec, damage, it>>

FooterDecode(meta, index, magic_bytes) ==
    /\ probe = NoProbe
    /\ ~Footer_encode(Footer_new(meta, index), Continued(0, FOOTER_SIZE)).panic
    /\ FooterDecoded(
            SubSeq(Footer_encode(Footer_new(meta, index), Continued(0, FOOTER_SIZE)).dst,
                   1, FOOTER_SIZE - MAGIC_SIZE) \o magic_bytes,
            magic_bytes,
            Footer_decode(
                SubSeq(Footer_encode(Footer_new(meta, index), Continued(0, FOOTER_SIZE)).dst,
                       1, FOOTER_SIZE - MAGIC_SIZE) \o magic_bytes))

(***************************************************************************)
(* config/storage.rs of the crates boxkv-common and commom: StorageConfig  *)
(***************************************************************************)
MIN_MEMTABLE_SIZE_MB == 1
MAX_MEMTABLE_SIZE_MB == 1024

ConfigOk == [ok |-> TRUE]
InvalidMemtableSize(mb) == [ok |-> FALSE, err |-> [type |-> "InvalidMemtableSize", size |-> mb]]
DirNotWritable == [ok |-> FALSE, err |-> [type |-> "DirNotWritable"]]

\* StorageConfig::check_memtable_size of boxkv-common:
\* `(MIN_MEMTABLE_SIZE_MB..=MAX_MEMTABLE_SIZE_MB).contains(&self.memtable_size_mb)`
check_memtable_size(memtable_size_mb) ==
    IF MIN_MEMTABLE_SIZE_MB <= memtable_size_mb /\ memtable_size_mb <= MAX_MEMTABLE_SIZE_MB
    THEN ConfigOk
    ELSE InvalidMemtableSize(memtable_size_mb)

\* StorageConfig::check_memtable_size of commom:
\* `if let size @ 0..=1024 = self.memtable_size_mb { Err(..) } else { Ok(()) }`
commom_check_memtable_size(memtable_size_mb) ==
    IF 0 <= memtable_size_mb /\ memtable_size_mb <= 1024
    THEN InvalidMemtableSize(memtable_size_mb)
    ELSE ConfigOk

\* StorageConfig::check_data_dir: the directory can be created and written, or not
check_data_dir(writable) == IF writable THEN ConfigOk ELSE DirNotWritable

\* StorageConfig::validate behind `self.check_memtable_size()?`, which gave checked
validate(checked, writable) == IF ~checked.ok THEN checked ELSE check_data_dir(writable)

\* the crates that define StorageConfig, and the sizes that are validated
ConfigCrates == {"boxkv-common", "commom"}
ConfigSizes == (0..20) \cup {64, 512, 1023, 1024, 1025, 1026, 2048, 4096, 65536}

\* StorageConfig { data_dir, memtable_size_mb }.validate() of the crate `crate`
Validate(crate, memtable_size_mb, writable) ==
    /\ probe = NoProbe
    /\ probe' = [kind |-> "config", crate |-> crate, memtable_size_mb |-> memtable_size_mb,
                 writable |-> writable,
                 res |-> IF crate = "commom"
                         THEN validate(commom_check_memtable_size(memtable_size_mb), writable)
                         ELSE validate(check_memtable_size(memtable_size_mb), writable)]
    /\ UNCHANGED <<memVars, disk, synced, wal, appended, durable, rec, nrec, damage, it>>

(***************************************************************************)
(* memtable.rs statement by statement: one thread in put or delete, others *)
(* in get or snapshot, on a MemTable they share.  `probe` holds the        *)
(* RwLock of the table, the position of every thread, and what the calls   *)
(* have written so far.                                                    *)
(***************************************************************************)
\* number of put and delete calls of the writing thread, the reading threads, and
\* the keys, values and seqs of their calls
MaxWrites == 2
Readers == {1, 2}
ThreadKeys == {<<>>, <<97>>}
ThreadValues == {Normal(<<120, 121>>), Tombstone}
ThreadSeqs == {0, 1}

IdleWriter == [pc |-> "idle", seq |-> 0, key |-> <<>>, value |-> Tombstone, old_size |-> 0]
IdleReader == [pc |-> "idle", op |-> "none", key |-> <<>>, res |-> <<>>]

\* RwLock::read returns at once whatever the lock is held for
may_read_always(lock) == TRUE

\* RwLock::read returns when no thread holds the lock for writing
may_read(lock) == ~lock.writer

\* RwLock::write takes the writer bit when no writer holds it, with readers inside
\* or not, and returns when the readers that were inside have left
may_write(lock) == ~lock.writer

ThreadsUnchanged == UNCHANGED <<out, disk, synced, wal, appended, durable, rec, nrec, damage, it>>

\* the MemTable is handed to the threads
Share ==
    /\ probe = NoProbe
    /\ probe' = [kind |-> "threads", lock |-> [writer |-> FALSE, readers |-> 0],
                 w |-> IdleWriter, r |-> [i \in Readers |-> IdleReader],
                 written |-> {}, maps |-> {table}, calls |-> 0]
    /\ UNCHANGED <<memVars, disk, synced, wal, appended, durable, rec, nrec, damage, it>>

\* MemTable::put / MemTable::delete is called: update(seq, key, value) begins
WriterCall(seq, key, value) ==
    /\ probe.kind = "threads"
    /\ probe.w.pc = "idle"
    /\ probe.calls < MaxWrites
    /\ probe' = [probe EXCEPT !.w = [pc |-> "lock", seq |-> seq, key |-> key,
                                      value |-> value, old_size |-> 0],
                              !.calls = @ + 1,
                              !.written = @ \cup {Entry(seq, key, value)}]
    /\ UNCHANGED <<table, size, maxSeen, lastSeq>>
    /\ ThreadsUnchanged

\* `self.table.write()`, its first half: the writer bit is set at once, and from
\* here on a read() waits
WriterLock ==
    /\ probe.kind = "threads"
    /\ probe.w.pc = "lock"
    /\ may_write(probe.lock)
    /\ probe' = [probe EXCEPT !.lock.writer = TRUE, !.w.pc = "wait"]
    /\ UNCHANGED <<table, size, maxSeen, lastSeq>>
    /\ ThreadsUnchanged

\* `self.table.write()`, its second half: the readers that were inside have left;
\* then `match writer.get_mut(&key)`, with old_size of the Some arm
WriterEnter ==
    /\ probe.kind = "threads"
    /\ probe.w.pc = "wait"
    /\ probe.lock.readers = 0
    /\ probe' = [probe EXCEPT
                    !.w.pc = IF probe.w.key \in DOMAIN table THEN "set_value" ELSE "add_size",
                    !.w.old_size = IF probe.w.key \in DOMAIN table
                                   THEN Len(probe.w.key)
                                        + serialized_len(table[probe.w.key].value)
                                        + ENTRY_METADATA_SIZE
                                   ELSE 0]
    /\ UNCHANGED <<table, size, maxSeen, lastSeq>>
    /\ ThreadsUnchanged

\* `entry_info.value = value;`
WriterSetValue ==
    /\ probe.kind = "threads"
    /\ probe.w.pc = "set_value"
    /\ table' = [table EXCEPT ![probe.w.key].value = probe.w.value]
    /\ probe' = [probe EXCEPT !.w.pc = "set_seq"]
    /\ UNCHANGED <<size, maxSeen, lastSeq>>
    /\ ThreadsUnchanged

\* `entry_info.seq = seq;`
WriterSetSeq ==
    /\ probe.kind = "threads"
    /\ probe.w.pc = "set_seq"
    /\ table' = [table EXCEPT ![probe.w.key].seq = probe.w.seq]
    /\ maxSeen' = [maxSeen EXCEPT ![probe.w.key] = IF probe.w.seq > @ THEN probe.w.seq ELSE @]
    /\ lastSeq' = [lastSeq EXCEPT ![probe.w.key] = probe.w.seq]
    /\ probe' = [probe EXCEPT !.w.pc = "adjust"]
    /\ UNCHANGED size
    /\ ThreadsUnchanged

\* new_size, diff and the fetch_add or fetch_sub of the Some arm
WriterAdjustSize ==
    /\ probe.kind = "threads"
    /\ probe.w.pc = "adjust"
    /\ size' = IF Len(probe.w.key) + serialized_len(table[probe.w.key].value)
                      + ENTRY_METADATA_SIZE > probe.w.old_size
               THEN fetch_add(size, Len(probe.w.key) + serialized_len(table[probe.w.key].value)
                                    + ENTRY_METADATA_SIZE - probe.w.old_size)
               ELSE IF Len(probe.w.key) + serialized_len(table[probe.w.key].value)
                          + ENTRY_METADATA_SIZE < probe.w.old_size
               THEN fetch_sub(size, probe.w.old_size - (Len(probe.w.key)
                                    + serialized_len(table[probe.w.key].value)
                                    + ENTRY_METADATA_SIZE))
               ELSE size
    /\ probe' = [probe EXCEPT !.w.pc = "unlock"]
    /\ UNCHANGED <<table, maxSeen, lastSeq>>
    /\ ThreadsUnchanged

\* `self.size.fetch_add(size as u64, Ordering::SeqCst);` of the None arm
WriterAddSize ==
    /\ probe.kind = "threads"
    /\ probe.w.pc = "add_size"
    /\ size' = fetch_add(size, Len(probe.w.key) + serialized_len(probe.w.value)
                               + ENTRY_METADATA_SIZE)
    /\ probe' = [probe EXCEPT !.w.pc = "insert"]
    /\ UNCHANGED <<table, maxSeen, lastSeq>>
    /\ ThreadsUnchanged

\* `writer.insert(key, EntryInfo { value, seq });`
WriterInsert ==
    /\ probe.kind = "threads"
    /\ probe.w.pc = "insert"
    /\ table' = update_table(table, probe.w.seq, probe.w.key, probe.w.value)
    /\ maxSeen' = [maxSeen EXCEPT ![probe.w.key] = IF probe.w.seq > @ THEN probe.w.seq ELSE @]
    /\ lastSeq' = [lastSeq EXCEPT ![probe.w.key] = probe.w.seq]
    /\ probe' = [probe EXCEPT !.w.pc = "unlock"]
    /\ UNCHANGED size
    /\ ThreadsUnchanged

\* update returns: the write guard is dropped
WriterUnlock ==
    /\ probe.kind = "threads"
    /\ probe.w.pc = "unlock"
    /\ probe' = [probe EXCEPT !.lock.writer = FALSE, !.w = IdleWriter,
                              !.maps = @ \cup {table}]
    /\ UNCHANGED <<table, size, maxSeen, lastSeq>>
    /\ ThreadsUnchanged

\* `self.table.read()` of MemTable::get (op = "get") or MemTable::snapshot
ReaderLock(i, op, key) ==
    /\ probe.kind = "threads"
    /\ probe.r[i].pc \in {"idle", "done"}
    /\ may_read(probe.lock)
    /\ probe' = [probe EXCEPT !.lock.readers = @ + 1,
                              !.r[i] = [pc |-> "locked", op |-> op, key |-> key, res |-> <<>>]]
    /\ UNCHANGED <<table, size, maxSeen, lastSeq>>
    /\ ThreadsUnchanged

\* `reader.get(key).map(..)` of get, `.iter().map(..).collect()` of snapshot
ReaderRead(i) ==
    /\ probe.kind = "threads"
    /\ probe.r[i].pc = "locked"
    /\ probe' = [probe EXCEPT !.r[i].pc = "read",
                              !.r[i].res = IF probe.r[i].op = "get"
                                           THEN get(table, probe.r[i].key)
                                           ELSE snapshot(table)]
    /\ UNCHANGED <<table, size, maxSeen, lastSeq>>
    /\ ThreadsUnchanged

\* get or snapshot returns: the read guard is dropped
ReaderUnlock(i) ==
    /\ probe.kind = "threads"
    /\ probe.r[i].pc = "read"
    /\ probe' = [probe EXCEPT !.lock.readers = @ - 1, !.r[i].pc = "done"]
    /\ UNCHANGED <<table, size, maxSeen, lastSeq>>
    /\ ThreadsUnchanged

\* a new MemTable and an empty WAL directory
Init == MemInit /\ WalInit

(***************************************************************************)
(* Specifications                                                          *)
(***************************************************************************)
\* records that WalWriter did not write: an unknown tag under a fitting checksum,
\* an Expiring record whose value section is shorter than its expire_at, a KeyLen
\* beyond the limit with two bytes behind it, a PayloadLen below 8
ForgedRecords ==
    {forge(to_be_bytes(9), 7, to_be_bytes(1), to_be_bytes(1), <<107>>),
     forge(to_be_bytes(11), EXPIRING_VALUE_TYPE, to_be_bytes(1), to_be_bytes(1), <<107, 1, 2>>),
     forge(to_be_bytes(WAL_MAX_KEY_SIZE + 9), NORMAL_VALUE_TYPE, to_be_bytes(1),
           to_be_bytes(WAL_MAX_KEY_SIZE + 1), <<107, 118>>),
     forge(to_be_bytes(0), NORMAL_VALUE_TYPE, to_be_bytes(1), to_be_bytes(0), <<>>)}

\* the bits of a byte that the damage scenarios flip: the lowest and the highest
DamageBits == {0, 7}

\* writing, closing and scanning WAL files, without failures
WalNext ==
    \/ \E id \in WalIds : Create(id)
    \/ \E e \in WalEntries : AppendEntry(e)
    \/ Drop
    \/ \E min_seq \in WalMinSeqs : Recover(min_seq)

SpecWal == Init /\ [][WalNext]_vars

\* writing and syncing WAL files, losing power, and recovering everything that is left
CrashNext ==
    \/ \E id \in WalIds : Create(id)
    \/ \E e \in CrashSamples : AppendEntry(e)
    \/ Sync
    \/ Drop
    \/ \E f \in WalIds, n \in 0..(MaxRecords * MaxRecordLen) : Crash(f, n)
    \/ Recover(0)

SpecCrash == Init /\ [][CrashNext]_vars

\* recovery from WAL files that were damaged after they were written
DamageNext ==
    \/ \E id \in WalIds : Create(id)
    \/ \E e \in CrashSamples : AppendEntry(e)
    \/ Drop
    \/ \E f \in WalIds, pos \in 1..(MaxRecords * MaxRecordLen), bit \in DamageBits :
           FlipBit(f, pos, bit)
    \/ \E f \in WalIds, bytes \in ForgedRecords : Forge(f, bytes)
    \/ \E f \in WalIds, n \in 0..MaxRecords : IoFault(f, n)
    \/ Recover(0)

SpecDamage == Init /\ [][DamageNext]_vars

\* one WAL file, written, closed, perhaps damaged, and read record by record
IterStep ==
    \/ Create(1)
    \/ \E e \in WalSamples : AppendEntry(e)
    \/ Drop
    \/ \E pos \in 1..(MaxRecords * MaxRecordLen), bit \in 0..7 : FlipBit(1, pos, bit)
    \/ IterOpen(1)
    \/ IterNext

SpecIter == Init /\ [][IterStep]_vars

\* the ValueTag bytes no variant has, and well-formed records that carry them under
\* a fitting checksum: without key and value, with both, with a value section as
\* long as that of an Expiring value
UnknownTags == {3, 7, 255}
TaggedRecords ==
    {forge(to_be_bytes(8), t, to_be_bytes(1), to_be_bytes(0), <<>>) : t \in UnknownTags}
    \cup {forge(to_be_bytes(10), t, to_be_bytes(2), to_be_bytes(1), <<107, 118>>) :
              t \in UnknownTags}
    \cup {forge(to_be_bytes(18), t, to_be_bytes(0), to_be_bytes(1),
                <<107, 0, 0, 0, 0, 0, 0, 1, 2, 118>>) : t \in UnknownTags}

\* one WAL file that ends in a record with an unknown ValueTag, read record by record
TagNext ==
    \/ Create(1)
    \/ \E e \in WalSamples : AppendEntry(e)
    \/ Drop
    \/ \E bytes \in TaggedRecords : Forge(1, bytes)
    \/ IterOpen(1)
    \/ IterNext

SpecTags == Init /\ [][TagNext]_vars

\* the reader's length checks on records of every size
LengthsNext ==
    \/ \E klen \in KeyLens, tag \in ValueTags, dlen \in DataLens : RoundTripLengths(klen, tag, dlen)
    \/ \E p \in PayloadLenFields, k \in KeyLenFields, b \in BytesBehind : ReadHeader(p, k, b)

SpecLengths == Init /\ [][LengthsNext]_vars

\* comparing and sorting entries
EntryNext ==
    \/ \E a \in OrdEntries, b \in OrdEntries : Compare(a, b)
    \/ \E es \in Vectors : Sort(es)

SpecEntry == Init /\ [][EntryNext]_vars

\* the varint codec on values and on byte strings
VarintNext ==
    \/ \E v \in VarintValues : VarintRoundTrip(v)
    \/ \E data \in VarintInputs : VarintDecode(data)

SpecVarint == Init /\ [][VarintNext]_vars

\* block handles, encoded and decoded, whole and cut short
HandleNext ==
    \/ \E o \in HandleValues, sz \in HandleValues : HandleRoundTrip(BlockHandle(o, sz))
    \/ \E o \in HandleValues, sz \in HandleValues, n \in 0..19 :
           HandleDecodeCut(BlockHandle(o, sz), n)

SpecHandle == Init /\ [][HandleNext]_vars

\* WAL files written, synced, closed, deleted by id (ids with and without a file,
\* files that are closed and the file the open Wal writes), recovered
DeleteIds == WalIds \cup {999}
DeleteNext ==
    \/ \E id \in WalIds : Create(id)
    \/ \E e \in CrashSamples : AppendEntry(e)
    \/ Sync
    \/ Drop
    \/ \E id \in DeleteIds : WalDelete(id)
    \/ Recover(0)

SpecDelete == Init /\ [][DeleteNext]_vars

\* configurations of either crate, validated
ConfigNext ==
    \E crate \in ConfigCrates, mb \in ConfigSizes, writable \in BOOLEAN :
        Validate(crate, mb, writable)

SpecConfig == Init /\ [][ConfigNext]_vars

\* one WAL file, written and synced by one writer, closed or cut off by a crash, and
\* read record by record
ReadNext ==
    \/ Create(1)
    \/ \E e \in WalSamples : AppendEntry(e)
    \/ Sync
    \/ Drop
    \/ \E n \in 0..(MaxRecords * MaxRecordLen) : Crash(1, n)
    \/ IterOpen(1)
    \/ IterNext

SpecRead == Init /\ [][ReadNext]_vars

\* the first bytes of a record whose write a crash cut short: inside the header,
\* inside the key length, behind it, and one byte before the end
TornCuts(e) == {k \in {1, 20, 25, 29, Len(append(e)) - 1} : k < Len(append(e))}
TornRecords == UNION {{SubSeq(append(e), 1, k) : k \in TornCuts(e)} : e \in CrashSamples}

\* WAL files written and closed, one of them left with a truncated record at its
\* end (behind its complete records, or in their place), and recovered
TornNext ==
    \/ \E id \in WalIds : Create(id)
    \/ \E e \in CrashSamples : AppendEntry(e)
    \/ Drop
    \/ \E f \in WalIds, bytes \in TornRecords : Forge(f, bytes)
    \/ \E f \in WalIds, n \in 0..(MaxRecords * MaxRecordLen) : Crash(f, n)
    \/ Recover(0)

SpecTorn == Init /\ [][TornNext]_vars

\* the names of a directory's entries: WAL files as Wal::create names them, files
\* with unpadded and signed numbers, and entries that are no WAL files (another
\* extension, a stem that is no number, a directory, a name without extension, a
\* number above u64::MAX, an extension in capitals), which hold
\* a record with a wrong checksum
Chars(n, c) == [i \in 1..n |-> c]
BadRecord == [append(Entry(1, <<>>, Normal(<<>>))) EXCEPT ![1] = (@ + 1) % 256]
DirEntries ==
    {DirEntry(<<48, 48, 48, 48, 48, 48, 48, 48, 50>>, "wal", TRUE,
              append(Entry(1, <<>>, Normal(<<>>))), <<Entry(1, <<>>, Normal(<<>>))>>),
     DirEntry(<<48, 48, 48, 48, 48, 48, 48, 48, 49>>, "wal", TRUE,
              append(Entry(0, <<107>>, Expiring(<<118>>, 258))),
              <<Entry(0, <<107>>, Expiring(<<118>>, 258))>>),
     DirEntry(<<49, 48>>, "wal", TRUE,
              append(Entry(1, <<>>, Normal(<<>>))), <<Entry(1, <<>>, Normal(<<>>))>>),
     DirEntry(<<57>>, "wal", TRUE,
              append(Entry(0, <<107>>, Expiring(<<118>>, 258))),
              <<Entry(0, <<107>>, Expiring(<<118>>, 258))>>),
     DirEntry(<<43, 51>>, "wal", TRUE,
              append(Entry(1, <<>>, Normal(<<>>))), <<Entry(1, <<>>, Normal(<<>>))>>),
     DirEntry(<<48, 48, 48, 48, 48, 48, 48, 48, 51>>, "log", TRUE, BadRecord, <<>>),
     Unreadable(DirEntry(<<110, 111, 116, 101, 115>>, "wal", TRUE, BadRecord, <<>>)),
     DirEntry(<<48, 48, 48, 48, 48, 48, 48, 48, 52>>, "wal", FALSE, <<>>, <<>>),
     DirEntry(<<46, 119, 97, 108>>, "", TRUE, BadRecord, <<>>),
     DirEntry(Chars(21, 57), "wal", TRUE, BadRecord, <<>>),
     DirEntry(<<48, 48, 48, 48, 48, 48, 48, 48, 53>>, "WAL", TRUE, BadRecord, <<>>)}

\* the listings of read_dir: up to MaxListing entries of different names, in any order
MaxListing == 3
Listings ==
    UNION {{l \in [1..n -> DirEntries] : \A i \in 1..n : \A j \in 1..n : l[i] = l[j] => i = j} :
              n \in 0..MaxListing}

\* recovery from directories that hold more than WAL files
ScanEnvs == {ScanEnv(oc, oom, NoFault) : oc \in BOOLEAN, oom \in BOOLEAN}
ScanNext == \E listing \in Listings : ScanDir(listing, 0, ScanEnvs)

SpecScan == Init /\ [][ScanNext]_vars

\* one writing thread and the reading threads on a shared MemTable
ThreadsNext ==
    \/ Share
    \/ \E seq \in ThreadSeqs, key \in ThreadKeys, value \in ThreadValues :
           WriterCall(seq, key, value)
    \/ WriterLock
    \/ WriterEnter
    \/ WriterSetValue
    \/ WriterSetSeq
    \/ WriterAdjustSize
    \/ WriterAddSize
    \/ WriterInsert
    \/ WriterUnlock
    \/ \E i \in Readers, key \in ThreadKeys : ReaderLock(i, "get", key)
    \/ \E i \in Readers : ReaderLock(i, "snapshot", <<>>)
    \/ \E i \in Readers : ReaderRead(i)
    \/ \E i \in Readers : ReaderUnlock(i)

SpecThreads == Init /\ [][ThreadsNext]_vars

\* one WAL file that ends in bytes WalWriter did not write, read record by record
ForgedNext ==
    \/ Create(1)
    \/ \E e \in WalSamples : AppendEntry(e)
    \/ Drop
    \/ \E bytes \in ForgedRecords : Forge(1, bytes)
    \/ IterOpen(1)
    \/ IterNext

SpecForged == Init /\ [][ForgedNext]_vars

\* entries appended out of the order of their seqs, and two entries of one seq
PrefixSamples ==
    {Entry(1, <<>>, Normal(<<>>)), Entry(0, <<107>>, Expiring(<<118>>, 258)),
     Entry(1, <<107>>, Tombstone)}

\* appends and syncs on one WAL file, a crash at any point (also between the two
\* calls of a sync), and the recovery
PrefixNext ==
    \/ Create(1)
    \/ \E e \in PrefixSamples : AppendEntry(e)
    \/ Flush
    \/ Sync
    \/ \E n \in 0..(MaxRecords * MaxRecordLen) : Crash(1, n)
    \/ Recover(0)

SpecPrefix == Init /\ [][PrefixNext]_vars

\* directories with two files of one id, a file with a torn tail, a file with a
\* damaged record and a file that may not be read: 000000001.wal, 1.wal,
\* 000000002.wal, 000000003.wal, 000000004.wal
TornTail == SubSeq(append(Entry(1, <<>>, Normal(<<>>))), 1, 20)
RepeatEntries ==
    {DirEntry(<<48, 48, 48, 48, 48, 48, 48, 48, 49>>, "wal", TRUE,
              append(Entry(1, <<>>, Normal(<<>>))), <<Entry(1, <<>>, Normal(<<>>))>>),
     DirEntry(<<49>>, "wal", TRUE,
              append(Entry(1, <<107>>, Tombstone)), <<Entry(1, <<107>>, Tombstone)>>),
     DirEntry(<<48, 48, 48, 48, 48, 48, 48, 48, 50>>, "wal", TRUE,
              append(Entry(1, <<107>>, Tombstone)) \o TornTail,
              <<Entry(1, <<107>>, Tombstone)>>),
     DirEntry(<<48, 48, 48, 48, 48, 48, 48, 48, 51>>, "wal", TRUE, BadRecord, <<>>),
     Unreadable(DirEntry(<<48, 48, 48, 48, 48, 48, 48, 48, 52>>, "wal", TRUE,
                         append(Entry(2, <<>>, Normal(<<>>))), <<Entry(2, <<>>, Normal(<<>>))>>))}
RepeatListings ==
    UNION {{l \in [1..n -> RepeatEntries] : \A i \in 1..n : \A j \in 1..n : l[i] = l[j] => i = j} :
              n \in 0..MaxListing}

\* a directory that is listed, one that may not be listed, and one whose listing
\* fails behind its first entry
RepeatFaults == {NoFault, ReadDirFault("PermissionDenied"), EntryFault(1)}
RepeatEnvs == {ScanEnv(TRUE, FALSE, fault) : fault \in RepeatFaults}

\* a directory recovered twice, nothing being written in between
RepeatNext ==
    \/ \E listing \in RepeatListings, min_seq \in {0, 2} : ScanDir(listing, min_seq, RepeatEnvs)
    \/ ScanAgain

SpecRepeat == Init /\ [][RepeatNext]_vars

\* footers of every pair of handles, encoded into a used buffer and decoded again
FooterHandles == {BlockHandle(o, s) : o \in FooterValues, s \in FooterValues}
FooterNext ==
    \/ \E meta \in FooterHandles, index \in FooterHandles, fill \in BufferFills :
           FooterRoundTrip(meta, index, fill)
    \/ \E meta \in FooterHandles, index \in FooterHandles, magic_bytes \in MagicBytes :
           FooterDecode(meta, index, magic_bytes)

SpecFooter == Init /\ [][FooterNext]_vars

Spec == Init /\ [][MemNext]_vars

\* puts and deletes under one seq and one value, on keys that tell the orders apart
OrderNext ==
    \/ \E key \in OrderKeys : Put(1, key, <<120>>)
    \/ \E key \in OrderKeys : Delete(1, key)
    \/ Snapshot

SpecOrder == Init /\ [][OrderNext]_vars

\* every MemTable call on two keys, one of them empty, under two seqs
CallKeys == {<<>>, <<97>>}
CallSeqs == {0, 1}
CallNext ==
    \/ \E seq \in CallSeqs, key \in CallKeys, value \in MemValues : Put(seq, key, value)
    \/ \E seq \in CallSeqs, key \in CallKeys : Delete(seq, key)
    \/ \E key \in CallKeys : Get(key)
    \/ Size
    \/ Snapshot

SpecCalls == Init /\ [][CallNext]_vars

(***************************************************************************)
(* MemTable claims                                                         *)
(***************************************************************************)
\* C1 as stated: after any put/delete calls on k with seqs in any order,
\* get(k).seq is the largest seq ever passed to put or delete for k.
C1_LargestSeqStored ==
    \A k \in MemKeys :
        maxSeen[k] >= 0 => get(table, k).some /\ get(table, k).entry.seq = maxSeen[k]

\* C1 amended: after any put/delete calls on k, get(k).seq is the seq passed
\* to the most recent put or delete for k, whatever seqs were passed before.
C1_LastCallSeqStored ==
    \A k \in MemKeys :
        lastSeq[k] >= 0 => get(table, k).some /\ get(table, k).entry.seq = lastSeq[k]

\* a key whose most recent put/delete carried a smaller seq than an earlier one
C1_Witness ==
    \E k \in DOMAIN table : 0 <= lastSeq[k] /\ lastSeq[k] < maxSeen[k]

\* sum over the stored keys of key.len() + value.serialized_len() + 16
RECURSIVE SumEntrySizes(_, _)
SumEntrySizes(t, ks) ==
    IF ks = {} THEN 0
    ELSE LET k == CHOOSE x \in ks : TRUE
         IN  Len(k) + serialized_len(t[k].value) + 16 + SumEntrySizes(t, ks \ {k})

\* C2: size() is exactly the sum over the stored keys of
\* key.len() + value.serialized_len() + 16, and 0 for a new MemTable.
C2_SizeIsSumOfEntries ==
    /\ size = SumEntrySizes(table, DOMAIN table)
    /\ (table = << >> => size = 0)

\* a table in which a key written more than once now holds a Tombstone next to
\* another key holding a non-empty Normal value
C2_Witness ==
    /\ \E k \in DOMAIN table : is_tombstone(table[k].value) /\ lastSeq[k] < maxSeen[k]
    /\ \E k \in DOMAIN table : table[k].value.tag = NORMAL_VALUE_TYPE /\ Len(table[k].value.data) = 2
    /\ size > 0

\* C12: delete(seq, k) never removes a key: whether or not k was present, get(k)
\* right after it is Some(entry) with the variant Tombstone and the delete's seq,
\* and snapshot() holds that tombstone.
C12_DeleteLeavesTombstone ==
    [][\A seq \in CallSeqs, key \in CallKeys :
           Delete(seq, key) =>
               /\ get(table', key) = [some |-> TRUE, entry |-> Entry(seq, key, Tombstone)]
               /\ \E i \in DOMAIN snapshot(table') :
                      snapshot(table')[i] = Entry(seq, key, Tombstone)]_vars

\* a get on the only key of the table returned a tombstone, and the size counter
\* holds that tombstone alone
C12_Witness ==
    /\ out.op = "get"
    /\ out.res.some
    /\ is_tombstone(out.res.entry.val)
    /\ DOMAIN table = {out.key}
    /\ size = Len(out.key) + ENTRY_METADATA_SIZE

\* a is before b in the lexicographic order of unsigned bytes
LexLess(a, b) ==
    \E i \in 1..(Len(b)) :
        /\ i <= Len(a) + 1
        /\ \A j \in 1..(i - 1) : a[j] = b[j]
        /\ i = Len(a) + 1 \/ a[i] < b[i]

\* C13: after any puts and deletes, in any order of the keys, snapshot() is in
\* strictly ascending lexicographic order of the keys as unsigned bytes, and holds
\* exactly one entry for every key ever written.
C13_SnapshotStrictlyAscending ==
    LET snap == snapshot(table)
    IN  /\ \A i \in 1..(Len(snap) - 1) : LexLess(snap[i].key, snap[i + 1].key)
        /\ \A k \in DOMAIN lastSeq :
               Cardinality({i \in DOMAIN snap : snap[i].key = k})
                   = IF lastSeq[k] # -1 THEN 1 ELSE 0
        /\ out.op = "snapshot" => out.res = snap

\* a snapshot call returned all five keys, tombstones among them: the empty key
\* first, "ab" before "b", and the byte 200 last
C13_Witness ==
    /\ out.op = "snapshot"
    /\ Len(out.res) = 5
    /\ out.res[1].key = <<>> /\ out.res[3].key = <<97, 98>>
    /\ out.res[4].key = <<98>> /\ out.res[5].key = <<200>>
    /\ is_tombstone(out.res[3].val) /\ ~is_tombstone(out.res[4].val)

\* C14: get(k) is None exactly when no put or delete was ever applied to k, and
\* right after put(seq, k, v) it is Some(entry) with key k, seq seq and the value
\* Normal(v), also for an empty k or v.
C14_GetNoneIffNeverWritten ==
    /\ [](\A k \in CallKeys : get(table, k).some <=> lastSeq[k] # -1)
    /\ [][\A seq \in CallSeqs, key \in CallKeys, value \in MemValues :
              Put(seq, key, value) =>
                  get(table', key) = [some |-> TRUE, entry |-> Entry(seq, key, Normal(value))]]_vars

\* a get of the empty key returned the entry with an empty value that was put,
\* while another key was never written
C14_Witness ==
    /\ out.op = "get"
    /\ out.key = <<>>
    /\ out.res.some
    /\ out.res.entry.key = <<>> /\ out.res.entry.val = Normal(<<>>)
    /\ lastSeq[<<97>>] = -1 /\ ~get(table, <<97>>).some

(***************************************************************************)
(* WAL claims                                                              *)
(***************************************************************************)
\* how often x occurs in the sequence es
CountIn(es, x) == Cardinality({i \in DOMAIN es : es[i] = x})

\* how many of the records appended to file f the file holds in full
Complete(f) ==
    CHOOSE k \in 0..Len(appended[f]) :
        /\ RecordEnd(appended[f], k) <= Len(disk[f])
        /\ \A j \in 0..Len(appended[f]) : RecordEnd(appended[f], j) <= Len(disk[f]) => j <= k

\* the entries whose records file f holds in full
OnDisk(f) == SubSeq(appended[f], 1, Complete(f))

\* how often x is among the first n[f] entries appended to each file f of fs
RECURSIVE CountFirst(_, _, _)
CountFirst(fs, n, x) ==
    IF fs = {} THEN 0
    ELSE LET f == CHOOSE g \in fs : TRUE
         IN  CountIn(SubSeq(appended[f], 1, n[f]), x) + CountFirst(fs \ {f}, n, x)

\* how often x is among the entries the files of the directory hold in full
CountOnDisk(x) == CountFirst(DOMAIN disk, [f \in DOMAIN disk |-> Complete(f)], x)

\* C3: once sync() has returned Ok, every record appended to that WAL before the
\* sync is returned by a later read_all_entries(dir, 0), also after a crash that
\* loses the writer's buffer and every byte that was not synced.
C3_SyncedRecordsRecovered ==
    rec.ret.kind # "none" =>
        /\ rec.ret.kind = "ok"
        /\ \A x \in CrashSamples :
               CountIn(rec.ret.entries, x) >= CountFirst(DOMAIN durable, durable, x)

\* a crash took the record appended after the sync, and recovery returned the
\* record appended before it
C3_Witness ==
    /\ damage.kind = "crash"
    /\ rec.ret.kind = "ok"
    /\ \E f \in DOMAIN durable :
           /\ damage.file = f
           /\ durable[f] >= 1 /\ durable[f] < Len(appended[f])
           /\ rec.ret.entries = SubSeq(appended[f], 1, durable[f])

\* the entries are in ascending order of seq
SeqAscending(es) == \A i \in 1..(Len(es) - 1) : es[i].seq <= es[i + 1].seq

\* the largest seq among the entries the directory holds in full, 0 if it holds none
MaxSeqOnDisk ==
    LET S == {x.seq : x \in {y \in WalEntries : CountOnDisk(y) > 0}}
    IN  IF S = {} THEN 0 ELSE CHOOSE s \in S : \A t \in S : t <= s

\* C4: for intact records spread over the WAL files of a directory in any physical
\* order and any min_seq, read_all_entries returns exactly the records with
\* seq >= min_seq, in ascending order of seq, with max_seq the largest seq on disk
\* when a record passes the filter and 0 when none does.
C4_FilteredSortedWithMaxSeq ==
    rec.ret.kind # "none" =>
        /\ rec.ret.kind = "ok"
        /\ \A i \in DOMAIN rec.ret.entries : rec.ret.entries[i] \in WalEntries
        /\ \A x \in WalEntries :
               CountIn(rec.ret.entries, x) =
                   IF x.seq >= rec.call.min_seq THEN CountOnDisk(x) ELSE 0
        /\ SeqAscending(rec.ret.entries)
        /\ rec.ret.max_seq = IF rec.ret.entries = <<>> THEN 0 ELSE MaxSeqOnDisk

\* the file with the smaller id holds the larger seq, and recovery with a min_seq
\* above 0 returned both records, the smaller seq first
C4_Witness ==
    /\ rec.ret.kind = "ok"
    /\ rec.call.min_seq >= 1
    /\ Len(rec.ret.entries) = 2
    /\ 1 \in DOMAIN disk /\ 2 \in DOMAIN disk
    /\ Complete(1) = 1 /\ Complete(2) = 1
    /\ appended[1][1].seq > appended[2][1].seq
    /\ rec.ret.entries = <<appended[2][1], appended[1][1]>>
    /\ rec.ret.max_seq = appended[1][1].seq

\* C5 as stated: recovery with the flushed sequence floor as min_seq returns no
\* entry whose seq is at or below the floor.
C5_NoEntryAtOrBelowFloor ==
    rec.ret.kind = "ok" =>
        \A i \in DOMAIN rec.ret.entries : rec.ret.entries[i].seq > rec.call.min_seq

\* C5 amended: recovery with min_seq returns no entry whose seq is below min_seq,
\* and it does return every intact entry whose seq equals min_seq.
C5_NoEntryBelowMinSeq ==
    rec.ret.kind = "ok" =>
        /\ \A i \in DOMAIN rec.ret.entries : rec.ret.entries[i].seq >= rec.call.min_seq
        /\ \A x \in WalEntries :
               x.seq = rec.call.min_seq => CountIn(rec.ret.entries, x) = CountOnDisk(x)

\* recovery with a min_seq above 0 returned an entry whose seq equals min_seq and
\* left out one below it
C5_Witness ==
    /\ rec.ret.kind = "ok"
    /\ rec.call.min_seq >= 1
    /\ \E i \in DOMAIN rec.ret.entries : rec.ret.entries[i].seq = rec.call.min_seq
    /\ \E x \in WalEntries : x.seq < rec.call.min_seq /\ CountOnDisk(x) > 0

\* C6: a WAL file cut anywhere from the end of its record N-1 to one byte short of
\* the end of its record N is read without error, and recovery returns exactly the
\* records the files still hold in full.
C6_TornTailDropsLastRecordOnly ==
    (damage.kind = "crash" /\ rec.ret.kind # "none") =>
        /\ rec.ret.kind = "ok"
        /\ \A i \in DOMAIN rec.ret.entries : rec.ret.entries[i] \in CrashSamples
        /\ \A x \in CrashSamples : CountIn(rec.ret.entries, x) = CountOnDisk(x)

\* a file of two records was cut inside the value section of the second one, and
\* recovery returned the first
C6_Witness ==
    /\ damage.kind = "crash"
    /\ rec.ret.kind = "ok"
    /\ Len(appended[damage.file]) = 2
    /\ damage.len = RecordEnd(appended[damage.file], 2) - 1
    /\ serialized_len(appended[damage.file][2].val) > 0
    /\ rec.ret.entries = <<appended[damage.file][1]>>

\* what the items an iterator yields for a file, from offset pos, lead to: the first
\* error other than unexpected-EOF, a panic, or neither before the items end
RECURSIVE FirstFatal(_, _, _)
FirstFatal(file, pos, env) ==
    LET res == read_next_entry(file, pos, env)
    IN  IF res.kind = "entry" THEN FirstFatal(file, res.pos, env)
        ELSE IF res.kind = "err" /\ res.err # UnexpectedEof THEN [kind |-> "err", err |-> res.err]
        ELSE IF res.kind = "panic" THEN [kind |-> "panic"]
        ELSE [kind |-> "none"]

\* FirstFatal for file f of the directory, under the environment of the last recovery
FatalIn(f) == FirstFatal(disk[f], 0, FileEnv(rec.call.env, f))

\* C7: when the iterator of a WAL file yields CrcMismatch, InvalidRecordType,
\* PayloadTooLarge or an I/O error other than unexpected-EOF, read_all_entries
\* returns Err(WalError::Read) with that error and the path of that file, and with
\* it no entries, whatever it collected from the files before.
C7_FatalErrorAbortsRecovery ==
    rec.ret.kind # "none" =>
        \A f \in DOMAIN disk :
            (/\ FatalIn(f).kind = "err"
             /\ \A g \in DOMAIN disk : g < f => FatalIn(g).kind = "none")
            => rec.ret = [kind |-> "err",
                          err |-> [type |-> "Read", path |-> f, source |-> FatalIn(f).err]]

\* recovery had collected an entry from the first file when a flipped bit in the
\* second one made it return the CrcMismatch and the second file's path
C7_Witness ==
    /\ damage.kind = "flip" /\ damage.file = 2
    /\ 1 \in DOMAIN disk /\ Complete(1) >= 1
    /\ rec.ret.kind = "err"
    /\ rec.ret.err.type = "Read"
    /\ rec.ret.err.path = 2
    /\ rec.ret.err.source.type = "CrcMismatch"

\* C8: for every entry of any variant, with a key of at most 1 MiB and value data
\* of at most 64 MiB, appending it and reading the file back yields one entry with
\* the same key, variant and value (here: the same key length, tag and data length).
C8_RoundTripUpToLimits ==
    (/\ probe.kind = "roundtrip"
     /\ probe.key_len <= WAL_MAX_KEY_SIZE
     /\ probe.data_len <= WAL_MAX_VAL_SIZE)
    => probe.res = [kind |-> "entry", key_len |-> probe.key_len, tag |-> probe.tag,
                    data_len |-> probe.data_len]

\* byte number pos of the file lies in the payload section (KeyLen, key, value
\* section) of the i-th record appended to file f
InPayload(f, i, pos) ==
    /\ pos > RecordEnd(appended[f], i - 1) + WAL_HEADER_SIZE
    /\ pos <= RecordEnd(appended[f], i)

\* C9: after one bit in the payload section of a written record has flipped, the
\* read of that record yields CrcMismatch and nothing else.
C9_PayloadFlipYieldsCrcMismatch ==
    (/\ damage.kind = "flip"
     /\ it.open /\ it.last.kind # "new"
     /\ it.file = damage.file
     /\ \E i \in 1..Len(appended[it.file]) :
            /\ it.start = RecordEnd(appended[it.file], i - 1)
            /\ InPayload(it.file, i, damage.pos))
    => (it.last.kind = "err" /\ it.last.err.type = "CrcMismatch")

\* C10: a record whose KeyLen exceeds 1 MiB, or whose PayloadLen - 8 - KeyLen
\* exceeds 64 MiB, makes the iterator yield PayloadTooLarge with both lengths and
\* both limits, however many bytes the file holds behind the length fields.
C10_OversizedLengthsYieldPayloadTooLarge ==
    probe.kind = "header" =>
        /\ ~U64AtMost(probe.key_len, WAL_MAX_KEY_SIZE) =>
               /\ probe.res.kind = "err"
               /\ probe.res.err.type = "PayloadTooLarge"
               /\ probe.res.err.key_len = probe.key_len
               /\ probe.res.err.max_key = WAL_MAX_KEY_SIZE
               /\ probe.res.err.max_val = WAL_MAX_VAL_SIZE
        /\ (/\ U64Fits(probe.payload_len) /\ U64Fits(probe.key_len)
            /\ U64Nat(probe.payload_len) - 8 - U64Nat(probe.key_len) > WAL_MAX_VAL_SIZE) =>
               probe.res = [kind |-> "err",
                            err |-> PayloadTooLarge(probe.key_len,
                                        to_be_bytes(U64Nat(probe.payload_len) - 8
                                                    - U64Nat(probe.key_len)))]

\* C11: a record with a ValueTag byte other than 0, 1 and 2 under a CRC that fits
\* its bytes makes the iterator yield InvalidRecordType with that byte, never an
\* entry (the record is well formed otherwise and the file holds all of it).
C11_UnknownTagYieldsInvalidRecordType ==
    (/\ damage.kind = "forge"
     /\ it.open /\ it.last.kind # "new"
     /\ it.file = damage.file
     /\ it.start = damage.pos
     /\ disk[it.file][damage.pos + 13] \notin
            {NORMAL_VALUE_TYPE, TOMBSTONE_VALUE_TYPE, EXPIRING_VALUE_TYPE})
    => it.last = [kind |-> "err",
                  err |-> InvalidRecordType(disk[it.file][damage.pos + 13])]

\* behind a written record the iterator met a record with the tag 255 and a value
\* section of 9 bytes, and yielded InvalidRecordType(255)
C11_Witness ==
    /\ damage.kind = "forge"
    /\ damage.pos > 0
    /\ it.open /\ it.file = damage.file /\ it.start = damage.pos
    /\ Len(disk[it.file]) = damage.pos + WAL_HEADER_SIZE + 18
    /\ it.last = [kind |-> "err", err |-> InvalidRecordType(255)]

(***************************************************************************)
(* Entry claims                                                            *)
(***************************************************************************)
\* C15: Ord for Entry is a total order, by key ascending and then by seq
\* descending: a sorted vector is a rearrangement of the vector with the keys in
\* ascending order and, within one key, the seqs in descending order.
C15_SortKeyAscendingSeqDescending ==
    /\ probe.kind = "cmp" =>
           /\ probe.ord \in {"Less", "Equal", "Greater"}
           /\ probe.ord = "Less" <=> cmp(probe.b, probe.a) = "Greater"
           /\ probe.ord = "Equal" <=> cmp(probe.b, probe.a) = "Equal"
           /\ \A c \in OrdEntries :
                  (probe.ord # "Greater" /\ cmp(probe.b, c) # "Greater")
                      => cmp(probe.a, c) # "Greater"
           /\ probe.ord = "Less" <=>
                  \/ LexLess(probe.a.key, probe.b.key)
                  \/ probe.a.key = probe.b.key /\ probe.a.seq > probe.b.seq
    /\ probe.kind = "sort" =>
           /\ Len(probe.res) = Len(probe.input)
           /\ \A x \in OrdEntries : CountIn(probe.res, x) = CountIn(probe.input, x)
           /\ \A i \in 1..(Len(probe.res) - 1) :
                  \/ LexLess(probe.res[i].key, probe.res[i + 1].key)
                  \/ /\ probe.res[i].key = probe.res[i + 1].key
                     /\ probe.res[i].seq >= probe.res[i + 1].seq

\* a vector with the older version of a key first and a smaller key last was
\* sorted: the smaller key came first and the newer version before the older one
C15_Witness ==
    /\ probe.kind = "sort"
    /\ probe.input = <<Entry(1, <<97>>, Normal(<<>>)), Entry(2, <<97>>, Normal(<<>>)),
                       Entry(1, <<>>, Tombstone)>>
    /\ probe.res = <<Entry(1, <<>>, Tombstone), Entry(2, <<97>>, Normal(<<>>)),
                     Entry(1, <<97>>, Normal(<<>>))>>

\* C16: two entries are equal exactly if their keys and their seqs agree, whatever
\* their values, and exactly if cmp gives Equal.
C16_EqualIffKeyAndSeqAgree ==
    probe.kind = "cmp" =>
        /\ probe.eq <=> (probe.a.key = probe.b.key /\ probe.a.seq = probe.b.seq)
        /\ probe.eq <=> probe.ord = "Equal"

\* two entries with the same key and seq and different values compared equal
C16_Witness ==
    /\ probe.kind = "cmp"
    /\ probe.a.key = probe.b.key /\ probe.a.seq = probe.b.seq
    /\ probe.a.val # probe.b.val
    /\ probe.eq /\ probe.ord = "Equal"

(***************************************************************************)
(* SSTable format claims                                                   *)
(***************************************************************************)
\* C17: for every u64 v, decode(encode(v)) is (v, n) with n the number of bytes
\* encode produced, and encoded_size(v) is that number: 1 below 128, 10 for
\* u64::MAX.
C17_VarintRoundTrip ==
    probe.kind = "varint" =>
        /\ probe.decoded = DecodeOk(probe.value, Len(probe.encoded))
        /\ probe.size = Len(probe.encoded)
        /\ ~ge_0x80(probe.value) => probe.size = 1
        /\ probe.value = U64_MAX => probe.size = 10

\* u64::MAX was encoded in 10 bytes and decoded again
C17_Witness ==
    /\ probe.kind = "varint"
    /\ probe.value = U64_MAX
    /\ probe.encoded = <<255, 255, 255, 255, 255, 255, 255, 255, 255, 1>>
    /\ probe.size = 10
    /\ probe.decoded = DecodeOk(U64_MAX, 10)

\* the first n bytes of data all carry the continuation bit
AllContinued(data, n) == \A i \in 1..n : data[i] >= 128

\* C18: decode returns a Decode error, never a value, for an empty slice, for a
\* slice whose bytes all have the continuation bit set, and for an input that
\* needs more than 10 bytes to terminate.
C18_VarintRejectsBadInput ==
    (/\ probe.kind = "decode"
     /\ \/ probe.data = <<>>
        \/ AllContinued(probe.data, Len(probe.data))
        \/ Len(probe.data) > 10 /\ AllContinued(probe.data, 10))
    => (~probe.res.ok /\ probe.res.err.type = "Decode")

\* an input of ten bytes with the continuation bit and a last byte behind them was
\* rejected at its eleventh byte
C18_Witness ==
    /\ probe.kind = "decode"
    /\ probe.data = Continued(255, 10) \o <<1>>
    /\ probe.res = DecodeErr("varint too long: exceeds 64 bits", 10)

\* C19: decode accepts a 10-byte encoding whose 10th byte has its continuation
\* bit clear, and when the continuation bit is still set after 10 bytes it fails
\* with the "too long: exceeds 64 bits" error, whether or not the input holds an
\* 11th byte.
C19_TooLongAfterTenBytes ==
    probe.kind = "decode" =>
        /\ (/\ Len(probe.data) = 10
            /\ AllContinued(probe.data, 9)
            /\ probe.data[10] < 128)
           => (probe.res.ok /\ probe.res.read = 10)
        /\ (Len(probe.data) >= 10 /\ AllContinued(probe.data, 10))
           => (/\ ~probe.res.ok
               /\ probe.res.err.msg = "varint too long: exceeds 64 bits")

\* C20: for every BlockHandle h, decode(h.encode()) is (h, h.encoded_size()), and
\* decode of an encoding cut short, inside the offset or inside the size,
\* returns an error.
C20_BlockHandleRoundTrip ==
    /\ probe.kind = "handle" =>
           /\ probe.decoded = DecodeOk(probe.handle, probe.size)
           /\ probe.size = Len(probe.encoded)
    /\ probe.kind = "cut" => (~probe.res.ok /\ probe.res.err.type = "Decode")

\* the encoding of a handle with the size u64::MAX was cut inside the size, behind
\* a whole offset of two bytes, and decode returned the error of the second varint
C20_Witness ==
    /\ probe.kind = "cut"
    /\ probe.handle = BlockHandle(U64(300), U64_MAX)
    /\ probe.offset_len = 2
    /\ probe.len = 5
    /\ probe.res = DecodeErr("incomplete varint: expected more bytes", 3)

(***************************************************************************)
(* Footer claims, under SpecFooter                                         *)
(***************************************************************************)
\* C21: for every pair of handles, decode(encode(Footer::new(meta, index))) is that
\* footer; decode returns a footer whatever the last eight bytes are, carrying them
\* as its magic, and validate_magic is true exactly when that magic is MAGIC.
C21_FooterRoundTrip ==
    /\ probe.kind = "footer" =>
           /\ ~probe.encoded.panic
           /\ probe.decoded = [ok |-> TRUE, footer |-> probe.footer]
           /\ probe.valid
    /\ probe.kind = "magic" =>
           /\ probe.res.ok
           /\ u64_to_be_bytes(probe.res.footer.magic) = probe.magic_bytes
           /\ probe.valid <=> probe.res.footer.magic = MAGIC
           /\ probe.valid <=> probe.magic_bytes = <<176, 12, 192, 255, 238, 0, 0, 1>>

\* a footer whose magic bytes differ from MAGIC in the last byte only was decoded
\* without an error, and validate_magic returned false
C21_Witness ==
    /\ probe.kind = "magic"
    /\ probe.magic_bytes = <<176, 12, 192, 255, 238, 0, 0, 0>>
    /\ probe.res.ok
    /\ probe.res.footer.meta_index_handle = BlockHandle(U64(300), U64_MAX)
    /\ ~probe.valid

\* C22: encode leaves FOOTER_SIZE = 48 bytes: the two handles, then zeros, then
\* MAGIC big-endian in bytes [40..48], whatever the buffer held before.
C22_FooterLayout ==
    probe.kind = "footer" =>
        /\ ~probe.encoded.panic
        /\ Len(probe.encoded.dst) = 48
        /\ SubSeq(probe.encoded.dst, 1, probe.meta_size)
               = BlockHandle_encode(probe.footer.meta_index_handle)
        /\ SubSeq(probe.encoded.dst, probe.meta_size + 1, probe.meta_size + probe.index_size)
               = BlockHandle_encode(probe.footer.index_handle)
        /\ \A i \in (probe.meta_size + probe.index_size + 1)..40 : probe.encoded.dst[i] = 0
        /\ SubSeq(probe.encoded.dst, 41, 48) = <<176, 12, 192, 255, 238, 0, 0, 1>>

\* a footer of four one-byte varints was encoded into a buffer full of 0xFF: 36
\* bytes of padding
C22_Witness ==
    /\ probe.kind = "footer"
    /\ probe.fill = 255
    /\ probe.meta_size + probe.index_size = 4
    /\ probe.padding = 36
    /\ probe.encoded.dst[5] = 0 /\ probe.encoded.dst[40] = 0

\* C23: the two encoded handles and the magic number never take more than
\* FOOTER_SIZE bytes, so the padding is never negative and encode never panics.
C23_FooterFits ==
    probe.kind = "footer" =>
        /\ probe.meta_size + probe.index_size + MAGIC_SIZE <= FOOTER_SIZE
        /\ probe.padding >= 0
        /\ ~probe.encoded.panic

\* both handles hold u64::MAX twice: 40 bytes of varints, no padding
C23_Witness ==
    /\ probe.kind = "footer"
    /\ probe.footer.meta_index_handle = BlockHandle(U64_MAX, U64_MAX)
    /\ probe.footer.index_handle = BlockHandle(U64_MAX, U64_MAX)
    /\ probe.meta_size = 20 /\ probe.index_size = 20
    /\ probe.padding = 0
    /\ ~probe.encoded.panic

(***************************************************************************)
(* Wal::delete, under SpecDelete                                           *)
(***************************************************************************)
\* C24: Wal::delete(dir, file_id) removes the file named by the nine-digit file_id
\* and no other, and returns Ok; for an id without a file it changes nothing and
\* returns an error. It leaves the open Wal as it is. A recovery made afterwards
\* returns the records of the files that are left, and so none of the deleted
\* file, also none that its Wal has appended or synced after the delete.
C24_DeleteRemovesOneFile ==
    /\ [](probe.kind = "delete" =>
              /\ Len(probe.path.stem) = 9
              /\ parse_u64(probe.path.stem) = ParseOk(probe.file_id)
              /\ \A id \in DeleteIds \ {probe.file_id} : wal_file_name(id) # probe.path)
    /\ []((probe.kind = "delete" /\ rec # NoRec) =>
              /\ rec.ret.kind = "ok"
              /\ \A x \in CrashSamples : CountIn(rec.ret.entries, x) = CountOnDisk(x))
    /\ []((wal.open /\ ~Linked /\ DOMAIN disk = {} /\ rec # NoRec) =>
              rec.ret = [kind |-> "ok", entries |-> <<>>, max_seq |-> 0])
    /\ [][\A id \in DeleteIds : WalDelete(id) =>
              /\ probe'.ok <=> id \in DOMAIN disk
              /\ DOMAIN disk' = DOMAIN disk \ {id}
              /\ \A f \in DOMAIN disk' : disk'[f] = disk[f]
              /\ wal' = wal
              /\ ~probe'.ok => (disk' = disk /\ probe'.res.err.source = "NotFound")]_vars

\* file 1 and file 2 held one record each, different ones; file 1 was deleted, and
\* the recovery returned the record of file 2 alone
C24_Witness ==
    /\ probe.kind = "delete" /\ probe.ok /\ probe.file_id = 1
    /\ probe.removed = <<Entry(1, <<>>, Normal(<<>>))>>
    /\ DOMAIN disk = {2}
    /\ rec # NoRec
    /\ rec.ret.kind = "ok"
    /\ rec.ret.entries = <<Entry(0, <<107>>, Expiring(<<118>>, 258))>>

(***************************************************************************)
(* Recovery with nothing to return, under SpecWal                          *)
(***************************************************************************)
\* C25: when the directory holds no WAL file, or every record of its files has a
\* seq below min_seq, read_all_entries returns Ok with no entries and max_seq = 0.
C25_NothingToRecover ==
    (/\ rec # NoRec
     /\ \A f \in DOMAIN disk : \A i \in 1..Complete(f) :
            appended[f][i].seq < rec.call.min_seq)
        => rec.ret = [kind |-> "ok", entries |-> <<>>, max_seq |-> 0]

\* two files with a record each, seqs 1 and 2, were scanned with min_seq = 3
C25_Witness ==
    /\ rec # NoRec
    /\ rec.call.min_seq = 3
    /\ DOMAIN disk = {1, 2}
    /\ Complete(1) = 1 /\ appended[1][1].seq = 2
    /\ Complete(2) = 1 /\ appended[2][1].seq = 1
    /\ rec.ret = [kind |-> "ok", entries |-> <<>>, max_seq |-> 0]

(***************************************************************************)
(* StorageConfig, under SpecConfig                                         *)
(***************************************************************************)
\* C26: validate accepts memtable_size_mb exactly when it is in 1..1024 (the data
\* directory being writable), and otherwise fails with InvalidMemtableSize that
\* carries the value.
C26_AcceptsExactlyOneTo1024 ==
    probe.kind = "config" =>
        /\ (probe.writable => (probe.res.ok <=> probe.memtable_size_mb \in 1..1024))
        /\ probe.memtable_size_mb \notin 1..1024 =>
               probe.res = InvalidMemtableSize(probe.memtable_size_mb)
        /\ probe.memtable_size_mb \in 1..1024 =>
               (probe.res.ok \/ probe.res.err.type = "DirNotWritable")

\* the same, for the StorageConfig of boxkv-common alone
C26_BoxkvCommonAcceptsOneTo1024 ==
    (probe.kind = "config" /\ probe.crate = "boxkv-common") =>
        /\ (probe.writable => (probe.res.ok <=> probe.memtable_size_mb \in 1..1024))
        /\ probe.memtable_size_mb \notin 1..1024 =>
               probe.res = InvalidMemtableSize(probe.memtable_size_mb)

(***************************************************************************)
(* The iterator over one file, under SpecRead                              *)
(***************************************************************************)
\* C27: the iterator over a file that one writer wrote and that lost nothing yields
\* the entries of the append calls in their order: the n-th item is the n-th
\* appended entry, read from where the (n-1)-th record ends, and end-of-sequence
\* comes after the last and not before.
C27_IteratorYieldsAppendOrder ==
    (it.open /\ damage = NoDamage) =>
        \E n \in 0..Len(appended[it.file]) :
            /\ it.pos = RecordEnd(appended[it.file], n)
            /\ it.last.kind \in {"new", "entry", "none"}
            /\ it.last.kind = "new" => n = 0
            /\ it.last.kind = "entry" =>
                   /\ n >= 1
                   /\ it.last.entry = appended[it.file][n]
                   /\ it.start = RecordEnd(appended[it.file], n - 1)
            /\ it.last.kind = "none" => n = Len(appended[it.file])

\* a tombstone with seq 2 and then a value with seq 1 were appended and synced; the
\* second item of the iterator is the value with seq 1
C27_Witness ==
    /\ it.open /\ damage = NoDamage
    /\ appended[1] = <<Entry(2, <<107>>, Tombstone), Entry(1, <<>>, Normal(<<>>))>>
    /\ synced[1] = Len(disk[1])
    /\ it.last = [kind |-> "entry", entry |-> Entry(1, <<>>, Normal(<<>>))]
    /\ it.start = RecordLen(Entry(2, <<107>>, Tombstone))

\* C30: once the iterator has yielded the unexpected-EOF error of a truncated last
\* record, the reader is at the end of the file, and every later call of next
\* returns None: no second error and no entry. (A step of next is a step that
\* keeps the iterator open on its file and starts where the last one ended.)
C30_EofErrorYieldedOnce ==
    /\ []((it.open /\ it.last.kind = "err" /\ it.last.err = UnexpectedEof)
              => it.pos = Len(disk[it.file]))
    /\ [][(/\ it.open /\ it'.open /\ it'.file = it.file
            /\ it'.last.kind # "new" /\ it'.start = it.pos
            /\ disk' = disk
            /\ \/ it.last.kind = "none"
               \/ it.last.kind = "err" /\ it.last.err = UnexpectedEof)
           => it'.last.kind = "none"]_vars

\* a crash cut the second record of the file short; the iterator yielded the first
\* record, then the error, and then None, from the end of the file
C30_Witness ==
    /\ it.open /\ damage.kind = "crash"
    /\ Len(appended[1]) = 2
    /\ Complete(1) = 1
    /\ Len(disk[1]) > RecordEnd(appended[1], 1)
    /\ it.last.kind = "none"
    /\ it.start = Len(disk[1]) /\ it.pos = Len(disk[1])

(***************************************************************************)
(* A truncated record in a file that is not the last, under SpecTorn       *)
(***************************************************************************)
\* C29: when file 1 ends in a truncated record and file 2 exists, read_all_entries
\* returns Ok with the complete records of file 1 and every record of file 2.
C29_TornLowerFileIsSkippedFromItsTail ==
    (/\ rec # NoRec
     /\ damage.kind \in {"crash", "forge"} /\ damage.file = 1
     /\ DOMAIN disk = {1, 2}
     /\ Len(disk[1]) > RecordEnd(appended[1], Complete(1)))
        => /\ rec.ret.kind = "ok"
           /\ Len(rec.ret.entries) = Complete(1) + Complete(2)
           /\ \A x \in CrashSamples :
                  CountIn(rec.ret.entries, x) = CountIn(OnDisk(1), x) + CountIn(OnDisk(2), x)

\* file 1 holds one record and the first 29 bytes of another, file 2 one record:
\* both whole records are returned
C29_Witness ==
    /\ rec # NoRec
    /\ damage.kind = "forge" /\ damage.file = 1
    /\ DOMAIN disk = {1, 2}
    /\ appended[1] = <<Entry(1, <<>>, Normal(<<>>))>>
    /\ Len(disk[1]) = RecordLen(Entry(1, <<>>, Normal(<<>>))) + 29
    /\ damage.pos = RecordLen(Entry(1, <<>>, Normal(<<>>)))
    /\ appended[2] = <<Entry(0, <<107>>, Expiring(<<118>>, 258))>> /\ Complete(2) = 1
    /\ rec.ret = [kind |-> "ok",
                  entries |-> <<Entry(0, <<107>>, Expiring(<<118>>, 258)),
                                Entry(1, <<>>, Normal(<<>>))>>,
                  max_seq |-> 1]

(***************************************************************************)
(* The size counter's subtraction, under SpecCalls                         *)
(***************************************************************************)
\* what an overwrite of key with value takes off the counter
Subtracted(t, key, value) ==
    IF serialized_len(t[key].value) > serialized_len(value)
    THEN serialized_len(t[key].value) - serialized_len(value)
    ELSE 0

\* a subtraction that stops at zero (u64::saturating_sub)
saturating_sub(cur, d) == IF d > cur THEN 0 ELSE cur - d

\* C28: the counter is never negative or wrapped: whatever update is called next,
\* the amount it subtracts is at most what the counter holds, and the counter
\* after the subtraction is what a subtraction that saturates at zero gives.
C28_SubtractionNeverUnderflows ==
    /\ size >= 0
    /\ \A key \in DOMAIN table, value \in {Normal(v) : v \in MemValues} \cup {Tombstone} :
           /\ Subtracted(table, key, value) <= size
           /\ Subtracted(table, key, value) > 0 =>
                  /\ update_size(table, size, key, value)
                         = saturating_sub(size, Subtracted(table, key, value))
                  /\ update_size(table, size, key, value) >= 0

\* the only key, written twice, holds two bytes of value and the counter the 18
\* bytes of this entry: the smallest counter a subtraction can meet, a delete
\* taking 2 of them
C28_Witness ==
    /\ DOMAIN table = {<<>>}
    /\ table[<<>>].value = Normal(<<120, 121>>)
    /\ maxSeen[<<>>] > lastSeq[<<>>]
    /\ size = 18
    /\ Subtracted(table, <<>>, Tombstone) = 2
    /\ update_size(table, size, <<>>, Tombstone) = 16

(***************************************************************************)
(* The directory scan of read_all_entries, under SpecScan                  *)
(***************************************************************************)
\* the entries of a listing that are regular files named <u64>.wal
WalFilesOf(listing) ==
    {j \in DOMAIN listing :
        /\ listing[j].is_file
        /\ listing[j].ext = "wal"
        /\ parse_u64(listing[j].stem).ok}

\* C31: read_all_entries reads the regular files whose extension is "wal" and whose
\* stem parses as a u64, and no other entry of the directory; the other entries
\* cause no error; the files are read in ascending order of their ids.
C31_OnlyWalFilesInIdOrder ==
    probe.kind = "scan" =>
        /\ Len(probe.files) = Cardinality(WalFilesOf(probe.listing))
        /\ \A i \in DOMAIN probe.files : \E j \in WalFilesOf(probe.listing) :
               /\ parse_u64(probe.listing[j].stem) = ParseOk(probe.files[i].id)
               /\ probe.listing[j].bytes = probe.files[i].bytes
        /\ \A i \in 1..(Len(probe.files) - 1) : probe.files[i].id <= probe.files[i + 1].id
        /\ probe.ret.kind = "ok"
        /\ probe.min_seq = 0 =>
               /\ Len(probe.read.entries) = Len(probe.files)
               /\ \A i \in DOMAIN probe.files : probe.read.entries[i] = probe.files[i].records[1]

\* the directory lists 10.wal, then 000000003.log, then 9.wal: 9.wal is read first,
\* 10.wal second, and the .log file, whose record is damaged, not at all
C31_Witness ==
    /\ probe.kind = "scan" /\ probe.min_seq = 0
    /\ Len(probe.listing) = 3
    /\ probe.listing[1].stem = <<49, 48>>
    /\ probe.listing[2].ext = "log"
    /\ probe.listing[3].stem = <<57>>
    /\ Len(probe.files) = 2
    /\ probe.files[1].id = 9 /\ probe.files[2].id = 10
    /\ probe.read.entries = <<Entry(0, <<107>>, Expiring(<<118>>, 258)),
                              Entry(1, <<>>, Normal(<<>>))>>
    /\ probe.ret.kind = "ok"

(***************************************************************************)
(* Creating a WAL file that exists, under SpecWal                          *)
(***************************************************************************)
\* the directory without file id
Without(dir, id) == [f \in (DOMAIN dir) \ {id} |-> dir[f]]

\* a step that is Wal::create(dir, id) for a file that exists
Recreates(id) == ~wal.open /\ wal'.open /\ wal'.id = id /\ id \in DOMAIN disk

\* C32: Wal::create for an existing file truncates it: a recovery afterwards returns
\* none of the records the file held, and the records of the other files as before.
C32_CreateTruncates ==
    [][\A id \in WalIds : Recreates(id) =>
           /\ disk'[id] = <<>>
           /\ \A f \in (DOMAIN disk) \ {id} : f \in DOMAIN disk' /\ disk'[f] = disk[f]
           /\ read_all_entries(disk', 0, EnvOf(FALSE, FALSE))
                  = read_all_entries(Without(disk, id), 0, EnvOf(FALSE, FALSE))]_vars

\* two records were appended, one to file 1 and one to file 2; file 1 was created
\* again, and a recovery returns the record of file 2 alone
C32_Witness ==
    /\ nrec = 2
    /\ wal.open /\ wal.id = 1 /\ wal.buf = <<>>
    /\ DOMAIN disk = {1, 2}
    /\ disk[1] = <<>>
    /\ Len(appended[2]) = 1 /\ disk[2] = append(appended[2][1])
    /\ rec # NoRec
    /\ rec.ret = [kind |-> "ok", entries |-> appended[2], max_seq |-> appended[2][1].seq]

(***************************************************************************)
(* Readers beside the writer, under SpecThreads                            *)
(***************************************************************************)
\* the results that readers hold
GetResults ==
    {probe.r[i].res : i \in {j \in Readers : probe.r[j].pc \in {"read", "done"}
                                              /\ probe.r[j].op = "get"}}
SnapshotResults ==
    {probe.r[i].res : i \in {j \in Readers : probe.r[j].pc \in {"read", "done"}
                                              /\ probe.r[j].op = "snapshot"}}

\* C33: whatever the interleaving of the writer's statements with get and snapshot,
\* every entry a reader returns has the value and the seq of one put or delete
\* call, and a snapshot is the map as it was between two writes.
C33_ReadersSeeWholeWrites ==
    probe.kind = "threads" =>
        /\ \A res \in GetResults : res.some => res.entry \in probe.written
        /\ \A res \in SnapshotResults :
               /\ \A i \in DOMAIN res : res[i] \in probe.written
               /\ \E m \in probe.maps : res = snapshot(m)

\* the writer is between `entry_info.value = value` and `entry_info.seq = seq` of
\* an overwrite that changes both, a reader waits for the lock, and another
\* reader holds a snapshot it took before the overwrite
C33_Witness ==
    /\ probe.kind = "threads"
    /\ probe.w.pc = "set_seq"
    /\ table[probe.w.key].seq # probe.w.seq
    /\ Entry(table[probe.w.key].seq, probe.w.key, table[probe.w.key].value) \notin probe.written
    /\ probe.r[1].pc = "done" /\ probe.r[1].op = "snapshot" /\ Len(probe.r[1].res) = 1
    /\ probe.r[2].pc = "idle"

(***************************************************************************)
(* Reading bytes that WalWriter did not write, under SpecForged            *)
(***************************************************************************)
\* C34: whatever bytes a WAL file holds, a step of the iterator ends with an entry,
\* with the clean end of the file or with a ReadError: read_next_entry does not
\* panic, neither for a PayloadLen below 8 + KeyLen nor for an Expiring record with
\* a fitting checksum whose value section is shorter than 8 bytes.
C34_EveryStepEndsWithoutPanic ==
    (it.open /\ it.last.kind # "new") => it.last.kind \in {"entry", "none", "err"}

(***************************************************************************)
(* Intact records behind a damaged one, under SpecDamage                   *)
(***************************************************************************)
\* the i-th record of file f is whole on the medium: the file holds all its bytes,
\* and the flipped bit is not among them
Intact(f, i) ==
    /\ i <= Complete(f)
    /\ damage.kind = "flip" =>
           \/ damage.file # f
           \/ damage.pos <= RecordEnd(appended[f], i - 1)
           \/ damage.pos > RecordEnd(appended[f], i)

\* C35: when a bit of a record has flipped and read_all_entries returns Ok, every
\* record that is whole in its file and has seq >= min_seq is among the entries
\* returned, also the records behind one whose KeyLen or PayloadLen has changed.
C35_IntactRecordsAreReturned ==
    (rec # NoRec /\ rec.ret.kind = "ok" /\ damage.kind = "flip") =>
        \A f \in DOMAIN disk : \A i \in 1..Len(appended[f]) :
            (Intact(f, i) /\ appended[f][i].seq >= rec.call.min_seq)
                => \E j \in DOMAIN rec.ret.entries : rec.ret.entries[j] = appended[f][i]

(***************************************************************************)
(* What a crash leaves of one WAL file, under SpecPrefix                   *)
(***************************************************************************)
\* C36 as stated: after a crash at any point of the appends and syncs on one WAL
\* file, the entries recovered are a prefix of the appended entries, in the order
\* in which they were appended.
C36_RecoveredIsPrefixInAppendOrder ==
    (rec # NoRec /\ damage.kind = "crash") =>
        /\ rec.ret.kind = "ok"
        /\ \E k \in 0..Len(appended[1]) : rec.ret.entries = SubSeq(appended[1], 1, k)

\* C36: after a crash at any point of the appends and syncs on one WAL file, the
\* entries recovered are those of a prefix of the appended entries that holds at
\* least the synced ones: no record is recovered unless every record appended
\* before it is recovered too. They are returned in ascending order of seq, entries
\* of one seq in the order of their appends, which is the order of the appends
\* when the seqs were appended in ascending order.
C36_RecoveredIsSortedPrefix ==
    (rec # NoRec /\ damage.kind = "crash") =>
        /\ rec.ret.kind = "ok"
        /\ \E k \in durable[1]..Len(appended[1]) :
               /\ rec.ret.entries = sort_by_key_seq(SubSeq(appended[1], 1, k))
               /\ \A x \in PrefixSamples :
                      CountIn(rec.ret.entries, x) = CountIn(SubSeq(appended[1], 1, k), x)
               /\ SeqAscending(SubSeq(appended[1], 1, k))
                      => rec.ret.entries = SubSeq(appended[1], 1, k)
        /\ SeqAscending(rec.ret.entries)

\* seq 1 was appended before seq 0, the crash came after both records had reached
\* the file, and the recovery returned seq 0 first
C36_Witness ==
    /\ rec # NoRec /\ damage.kind = "crash"
    /\ Len(appended[1]) = 2
    /\ appended[1][1].seq = 1 /\ appended[1][2].seq = 0
    /\ durable[1] = 1
    /\ rec.ret.kind = "ok"
    /\ rec.ret.entries = <<appended[1][2], appended[1][1]>>

(***************************************************************************)
(* max_seq = 0, under SpecWal                                              *)
(***************************************************************************)
\* C37 as stated: whenever read_all_entries returns max_seq = 0, the list of
\* entries it returns is empty, whatever the directory holds and whatever min_seq
\* is, records of seq 0 and min_seq = 0 included.
C37_MaxSeqZeroMeansNoEntries ==
    (rec.ret.kind = "ok" /\ rec.ret.max_seq = 0) => rec.ret.entries = <<>>

\* C37: read_all_entries returns max_seq = 0 exactly when every entry it returns
\* has seq 0; the list is then empty when min_seq is above 0 or the directory
\* holds no record of seq 0, and holds the records of seq 0 otherwise.
C37_MaxSeqZeroMeansNoSeqAboveZero ==
    rec.ret.kind = "ok" =>
        /\ rec.ret.max_seq = 0 <=> \A i \in DOMAIN rec.ret.entries : rec.ret.entries[i].seq = 0
        /\ (rec.ret.max_seq = 0 /\ rec.call.min_seq > 0) => rec.ret.entries = <<>>
        /\ (rec.ret.max_seq = 0 /\ rec.call.min_seq = 0) =>
               \A x \in WalEntries :
                   CountIn(rec.ret.entries, x) = IF x.seq = 0 THEN CountOnDisk(x) ELSE 0

\* a record of seq 0 is all the directory holds, and the recovery with min_seq = 0
\* returned it together with max_seq = 0
C37_Witness ==
    /\ rec.ret.kind = "ok"
    /\ rec.call.min_seq = 0
    /\ rec.ret.max_seq = 0
    /\ Len(rec.ret.entries) = 1
    /\ rec.ret.entries[1].seq = 0

(***************************************************************************)
(* What a MemTable call leaves alone, under Spec                           *)
(***************************************************************************)
\* C38: a put or delete changes the value and the seq of no key but its own and
\* removes no key; get, snapshot and size change neither the map nor the counter.
C38_CallsLeaveTheRestAlone ==
    [][/\ DOMAIN table \subseteq DOMAIN table'
       /\ \E key \in MemKeys :
              /\ (DOMAIN table') \ (DOMAIN table) \subseteq {key}
              /\ \A k \in (DOMAIN table) \ {key} : table'[k] = table[k]
              /\ \A k \in MemKeys \ {key} : lastSeq'[k] = lastSeq[k]
       /\ out'.op \in {"get", "size", "snapshot"} => (table' = table /\ size' = size)]_vars

\* key "a" was written once, with seq 0; the empty key was written with seq 2 and
\* then with seq 1; a get has returned the entry of "a" as it was written
C38_Witness ==
    /\ DOMAIN table = {<<>>, <<97>>}
    /\ maxSeen[<<97>>] = 0 /\ lastSeq[<<97>>] = 0
    /\ maxSeen[<<>>] = 2 /\ lastSeq[<<>>] = 1
    /\ table[<<97>>] = [value |-> Normal(<<120, 121>>), seq |-> 0]
    /\ out = [op |-> "get", key |-> <<97>>,
              res |-> [some |-> TRUE, entry |-> Entry(0, <<97>>, Normal(<<120, 121>>))]]

(***************************************************************************)
(* The bits a decoded varint is made of, under SpecVarint                  *)
(***************************************************************************)
\* payload bit b (0..6) of the j-th byte consumed is set
PayloadBit(data, j, b) == Bit(data[j] % 128, 2^b) = 1

\* C39: whenever decode returns (v, n), the 7-bit groups of the n bytes consumed
\* denote exactly v: every payload bit set lies below bit 64 and is set in v, and v
\* has no other bit set. A 10-byte input whose 10th byte carries payload bits above
\* its bit 0 is never decoded to a value.
C39_DecodedValueHasEveryPayloadBit ==
    (probe.kind = "decode" /\ probe.res.ok) =>
        /\ \A j \in 1..probe.res.read : \A b \in 0..6 :
               PayloadBit(probe.data, j, b) =>
                   /\ 7 * (j - 1) + b < 64
                   /\ probe.res.value[7 * (j - 1) + b + 1] = 1
        /\ \A i \in 1..64 :
               probe.res.value[i] = 1
                   => PayloadBit(probe.data, (i - 1) \div 7 + 1, (i - 1) % 7)

(***************************************************************************)
(* Recovering twice, under SpecRepeat                                      *)
(***************************************************************************)
\* no two files of wal_files have the same id
DistinctIds(files) ==
    \A i \in DOMAIN files : \A j \in DOMAIN files : files[i].id = files[j].id => i = j

\* how often the entry e occurs in the list es
Occurrences(es, e) == Cardinality({i \in DOMAIN es : es[i] = e})

\* C40, as stated: read_all_entries creates, truncates and deletes no file of the
\* directory, and a second call with the same min_seq, nothing having been written
\* in between, returns the entries, their order and the max_seq of the first.
C40_RecoveryReadsOnlyAndRepeats ==
    probe.kind = "scan" =>
        /\ probe.dir = Entries(probe.listing)
        /\ "again" \in DOMAIN probe => (probe.dir2 = probe.dir /\ probe.again = probe.ret)

\* C40, as the code has it: read_all_entries creates, truncates and deletes no file
\* of the directory. When no two WAL files of the directory have names that parse
\* to the same id, a second call with the same min_seq, nothing having been written
\* in between, returns what the first returned, in whatever order read_dir lists
\* the files either time. With two files of one id the two calls still both succeed
\* or both fail; when they succeed they return the same max_seq and the same
\* entries, each as often, but entries of one seq may come in another order.
C40_RepeatsWhenIdsDiffer ==
    probe.kind = "scan" =>
        /\ probe.dir = Entries(probe.listing)
        /\ "again" \in DOMAIN probe =>
               /\ probe.dir2 = probe.dir
               /\ DistinctIds(probe.files) => probe.again = probe.ret
               /\ probe.again.kind = probe.ret.kind
               /\ probe.ret.kind = "ok" =>
                      /\ probe.again.max_seq = probe.ret.max_seq
                      /\ Len(probe.again.entries) = Len(probe.ret.entries)
                      /\ \A i \in DOMAIN probe.ret.entries :
                             Occurrences(probe.again.entries, probe.ret.entries[i])
                                 = Occurrences(probe.ret.entries, probe.ret.entries[i])
                      /\ \A i \in DOMAIN probe.ret.entries :
                             probe.again.entries[i].seq = probe.ret.entries[i].seq

\* read_dir lists 000000002.wal, whose tail is torn, before 000000001.wal in the
\* first call and after it in the second; both calls read 000000001.wal first and
\* return the same two entries of seq 1 in the same order
C40_Witness ==
    /\ probe.kind = "scan" /\ "again" \in DOMAIN probe
    /\ Len(probe.listing) = 2
    /\ probe.listing[1].stem = <<48, 48, 48, 48, 48, 48, 48, 48, 50>>
    /\ probe.listing2 = <<probe.listing[2], probe.listing[1]>>
    /\ probe.files = probe.files2 /\ Len(probe.files) = 2
    /\ probe.files[1].id = 1 /\ probe.files[2].id = 2
    /\ probe.ret = [kind |-> "ok",
                    entries |-> <<Entry(1, <<>>, Normal(<<>>)), Entry(1, <<107>>, Tombstone)>>,
                    max_seq |-> 1]
    /\ probe.again = probe.ret
    /\ probe.dir2 = Entries(probe.listing)

====
